---- MODULE Spec2Model ----
(***************************************************************************)
(* LiteConvert: the batch conversion worker (workers.py), the conversion   *)
(* functions (convert.py) and the path / naming helpers (utils.py).        *)
(*                                                                         *)
(* Strings are sequences of one-character strings.  A naming pattern is a  *)
(* sequence whose elements are characters or one of the five tokens        *)
(* "{name}", "{ext}", "{mode}", "{index}", "{page}"; braces occur nowhere   *)
(* else.  Two elements stand for more than one character: ARROW for the    *)
(* arrow of the mode labels and LONGRUN for a run of 256 letters (a file   *)
(* name holding it is longer than the file system allows).                 *)
(***************************************************************************)
EXTENDS Integers, Sequences, FiniteSets, TLC

ARROW == "U+2192"
LONGRUN == "a*256"

\* ------------------------------------------------------------ strings

Min(S) == CHOOSE x \in S : \A y \in S : x <= y
Max(S) == CHOOSE x \in S : \A y \in S : x >= y

\* str.lstrip(cs) / str.rstrip(cs) / str.strip(cs)
LStrip(s, cs) ==
    LET keep == {i \in 1..Len(s) : s[i] \notin cs}
    IN  IF keep = {} THEN <<>> ELSE SubSeq(s, Min(keep), Len(s))

RStrip(s, cs) ==
    LET keep == {i \in 1..Len(s) : s[i] \notin cs}
    IN  IF keep = {} THEN <<>> ELSE SubSeq(s, 1, Max(keep))

Strip(s, cs) == LStrip(RStrip(s, cs), cs)

\* the characters str.strip() without argument removes
WHITESPACE == {" "}

\* str.replace(tok, val) for a one-element tok
RECURSIVE Replace(_, _, _)
Replace(s, tok, val) ==
    IF s = <<>> THEN <<>>
    ELSE (IF Head(s) = tok THEN val ELSE <<Head(s)>>) \o Replace(Tail(s), tok, val)

\* str.lower(), on the upper-case letters that file suffixes use here
LowerChar(c) ==
    CASE c = "J" -> "j" [] c = "P" -> "p" [] c = "G" -> "g" [] c = "N" -> "n"
      [] c = "D" -> "d" [] c = "F" -> "f" [] c = "H" -> "h" [] c = "E" -> "e"
      [] c = "I" -> "i" [] c = "C" -> "c"
      [] OTHER -> c

Lower(s) == [i \in 1..Len(s) |-> LowerChar(s[i])]

\* str(n) for n >= 0
RECURSIVE Digits(_)
Digits(n) ==
    LET d == <<"0", "1", "2", "3", "4", "5", "6", "7", "8", "9">>
    IN  IF n < 10 THEN <<d[n + 1]>> ELSE Digits(n \div 10) \o <<d[(n % 10) + 1]>>

\* -------------------------------------------------------------- paths
\* A path is [dir |-> sequence of components, name |-> final component];
\* the component <<"/">> is the root.

ROOT == <<"/">>

\* the components of a relative string: split at "/", dropping "" and "."
RECURSIVE SplitComps(_, _)
SplitComps(s, cur) ==
    LET done == IF cur = <<>> \/ cur = <<".">> THEN <<>> ELSE <<cur>>
    IN  IF s = <<>> THEN done
        ELSE IF Head(s) = "/" THEN done \o SplitComps(Tail(s), <<>>)
        ELSE SplitComps(Tail(s), Append(cur, Head(s)))

\* pathlib: directory / filename
PathJoin(directory, filename) ==
    LET comps == SplitComps(filename, <<>>)
        all == IF filename # <<>> /\ Head(filename) = "/"
               THEN <<ROOT>> \o comps
               ELSE directory \o comps
    IN  [dir |-> SubSeq(all, 1, Len(all) - 1), name |-> all[Len(all)]]

\* pathlib: the directory a path names, as a sequence of components
AsDir(path) == Append(path.dir, path.name)

\* pathlib: PurePath.suffix and PurePath.stem
DotIndex(name) ==
    LET dots == {i \in 1..Len(name) : name[i] = "."}
    IN  IF dots = {} THEN 0 ELSE Max(dots)

PathSuffix(path) ==
    LET i == DotIndex(path.name)
    IN  IF 1 < i /\ i < Len(path.name) THEN SubSeq(path.name, i, Len(path.name)) ELSE <<>>

PathStem(path) ==
    LET i == DotIndex(path.name)
    IN  IF 1 < i /\ i < Len(path.name) THEN SubSeq(path.name, 1, i - 1) ELSE path.name

IMAGE_EXTS == {<<".", "j", "p", "g">>, <<".", "j", "p", "e", "g">>, <<".", "p", "n", "g">>}
HEIC_EXTS == {<<".", "h", "e", "i", "c">>, <<".", "h", "e", "i", "f">>}

is_image_file(path) == Lower(PathSuffix(path)) \in IMAGE_EXTS
is_heic_file(path) == Lower(PathSuffix(path)) \in HEIC_EXTS
is_pdf_file(path) == Lower(PathSuffix(path)) = <<".", "p", "d", "f">>

\* build_output_path: the characters forbidden on Windows become "_"
FORBIDDEN == {"\\", "/", ":", "*", "?", "\"", "<", ">", "|"}

build_output_path(directory, filename_no_ext, extension) ==
    LET safe_name == [i \in 1..Len(filename_no_ext) |->
                        IF filename_no_ext[i] \in FORBIDDEN THEN "_" ELSE filename_no_ext[i]]
    IN  PathJoin(directory, safe_name \o extension)

\* -------------------------------------------------------- file system
\* A file system is a function from the paths of its files to their
\* content, [kind |-> "image" | "pdf" | "garbage" | "empty", pages |-> n].
\* DIRS are the directories that exist; no operation of the worker or of a
\* conversion function creates or removes a directory.

DIR_OUT == <<ROOT, <<"o">>>>
DIR_IN == <<ROOT, <<"i">>>>
\* a directory that sits where a page of e.pdf is to be written
DIR_BLOCK == <<ROOT, <<"o">>, <<"e", "_", "2", ".", "p", "n", "g">>>>
\* a folder named JPG that the user keeps in the output directory
DIR_JPG == <<ROOT, <<"o">>, <<"J", "P", "G">>>>
DIRS == {<<ROOT>>, DIR_OUT, DIR_IN, DIR_BLOCK, DIR_JPG}

\* os.stat fails with ENAMETOOLONG, which Path.exists re-raises
TooLong(path) ==
    \/ LONGRUN \in {path.name[i] : i \in 1..Len(path.name)}
    \/ \E k \in 1..Len(path.dir) : LONGRUN \in {path.dir[k][i] : i \in 1..Len(path.dir[k])}

\* Path.exists(): [raised, val]
PathExists(f, path) ==
    [raised |-> TooLong(path),
     val |-> (~TooLong(path)) /\ (path \in DOMAIN f \/ AsDir(path) \in DIRS)]

\* open(path, "wb") raises: name too long, missing parent, or a directory
OpenFails(f, path) ==
    TooLong(path) \/ path.dir \notin DIRS \/ AsDir(path) \in DIRS

OpenError(f, path) ==
    IF TooLong(path) THEN "File name too long"
    ELSE IF path.dir \notin DIRS THEN "No such file or directory"
    ELSE "Is a directory"

\* the file system after path is created or truncated and data written
WriteFile(f, path, data) == (path :> data) @@ f

\* the first candidate, whether it exists or not
UniqueFirstCandidate(f, path, idx) ==
    [dir |-> path.dir, name |-> PathStem(path) \o <<"_">> \o Digits(idx) \o PathSuffix(path)]

\* ensure_unique_path: [raised, val]
RECURSIVE UniqueFrom(_, _, _)
UniqueFrom(f, path, idx) ==
    LET candidate == [dir |-> path.dir,
                      name |-> PathStem(path) \o <<"_">> \o Digits(idx) \o PathSuffix(path)]
    IN  IF ~PathExists(f, candidate).val THEN candidate ELSE UniqueFrom(f, path, idx + 1)

ensure_unique_path(f, path) ==
    IF PathExists(f, path).raised THEN [raised |-> TRUE, val |-> path]
    ELSE IF ~PathExists(f, path).val THEN [raised |-> FALSE, val |-> path]
    ELSE [raised |-> FALSE, val |-> UniqueFrom(f, path, 1)]

\* a resolution that renames under Skip as it does under Auto-rename
ResolveSkipRenames(f, path, policy) ==
    IF policy = "Overwrite" THEN [raised |-> FALSE, val |-> path]
    ELSE IF PathExists(f, path).raised THEN [raised |-> TRUE, val |-> path]
    ELSE IF ~PathExists(f, path).val THEN [raised |-> FALSE, val |-> path]
    ELSE [raised |-> FALSE,
          val |-> [dir |-> path.dir,
                   name |-> PathStem(path) \o <<"_", "1">> \o PathSuffix(path)]]

\* _resolve_collision: [raised, val]
resolve_collision(f, path, policy) ==
    IF policy = "Overwrite" THEN [raised |-> FALSE, val |-> path]
    ELSE IF policy = "Skip" /\ PathExists(f, path).raised THEN [raised |-> TRUE, val |-> path]
    ELSE IF policy = "Skip" /\ PathExists(f, path).val THEN [raised |-> FALSE, val |-> path]
    ELSE ensure_unique_path(f, path)

\* -------------------------------------------------------------- modes

M_HEIC_JPG == "HEIC -> JPG"
M_HEIC_PNG == "HEIC -> PNG"
M_MERGED == "JPG/PNG -> PDF (single merged)"
M_SEPARATE == "JPG/PNG -> PDF (separate files)"
M_PDF_JPG == "PDF -> JPG"
M_PDF_PNG == "PDF -> PNG"
MODES == {M_HEIC_JPG, M_HEIC_PNG, M_MERGED, M_SEPARATE, M_PDF_JPG, M_PDF_PNG}
POLICIES == {"Skip", "Auto-rename", "Overwrite"}

\* the characters of a mode label
ModeChars(m) ==
    LET jpgpng == <<"J", "P", "G", "/", "P", "N", "G", " ", ARROW, " ", "P", "D", "F", " ">>
    IN  CASE m = M_HEIC_JPG -> <<"H", "E", "I", "C", " ", ARROW, " ", "J", "P", "G">>
          [] m = M_HEIC_PNG -> <<"H", "E", "I", "C", " ", ARROW, " ", "P", "N", "G">>
          [] m = M_MERGED -> jpgpng \o <<"(", "s", "i", "n", "g", "l", "e", " ",
                                         "m", "e", "r", "g", "e", "d", ")">>
          [] m = M_SEPARATE -> jpgpng \o <<"(", "s", "e", "p", "a", "r", "a", "t", "e", " ",
                                           "f", "i", "l", "e", "s", ")">>
          [] m = M_PDF_JPG -> <<"P", "D", "F", " ", ARROW, " ", "J", "P", "G">>
          [] m = M_PDF_PNG -> <<"P", "D", "F", " ", ARROW, " ", "P", "N", "G">>

\* mode.endswith("JPG")
EndsWithJPG(m) ==
    LET c == ModeChars(m)
    IN  Len(c) >= 3 /\ SubSeq(c, Len(c) - 2, Len(c)) = <<"J", "P", "G">>

\* ------------------------------------------------------------- naming
\* The stem of an output file.  `default` replaces an empty pattern before
\* the tokens are expanded; `page` is the value of {page} (<<>> where the
\* function removes the token).

STRIP_CHARS == {" ", "_", "-", "."}

\* pattern and pattern.strip(), then the default when that is empty
PatternOr(job, default) ==
    LET p == IF job.naming_pattern = <<>> THEN <<>> ELSE Strip(job.naming_pattern, WHITESPACE)
    IN  IF p = <<>> THEN default ELSE p

ExpandStem(job, default, page) ==
    LET p0 == PatternOr(job, default)
        p1 == Replace(p0, "{name}", PathStem(job.input_path))
        p2 == Replace(p1, "{ext}", LStrip(PathSuffix(job.input_path), {"."}))
        p3 == Replace(p2, "{mode}", ModeChars(job.mode))
        p4 == Replace(p3, "{page}", page)
        p5 == Replace(p4, "{index}", <<>>)
    IN  Strip(p5, STRIP_CHARS)

\* ------------------------------------------------ conversion functions
\* A ConversionResult, without its elapsed time.  An error string is
\* [page |-> n, msg |-> text]: "Page n: text", or text alone when page = 0.
Err(msg) == [page |-> 0, msg |-> msg]
PageErr(page_no, msg) == [page |-> page_no, msg |-> msg]

Result(success, outputs, errors, pages) ==
    [success |-> success, outputs |-> outputs, errors |-> errors, pages |-> pages]

IMAGE_DATA == [kind |-> "image", pages |-> 1]
EMPTY_DATA == [kind |-> "empty", pages |-> 0]
PdfData(n) == [kind |-> "pdf", pages |-> n]

\* Image.open / img2pdf.convert accept the file
ReadableImage(f, path) == path \in DOMAIN f /\ f[path].kind = "image"
\* fitz.open accepts the file
ReadablePdf(f, path) == path \in DOMAIN f /\ f[path].kind = "pdf"

\* What a conversion function hands back to the worker: its result, the
\* file system it leaves and the values it passed to on_progress.
Outcome(res, f, progress) == [res |-> res, fs |-> f, progress |-> progress]

ONE == <<1, 1>>

\* _to_jpg_png(job, target_ext), target_ext = "JPG" or "PNG"
to_jpg_png(f, job, target_ext) ==
    LET stem == ExpandStem(job, PathStem(job.input_path) \o <<"_">> \o LStrip(target_ext, {"."}), <<>>)
        built == build_output_path(job.output_dir, stem, <<".">> \o Lower(target_ext))
        rc == resolve_collision(f, built, job.overwrite_policy)
        out_path == rc.val
    IN  IF ~ReadableImage(f, job.input_path)
        THEN Outcome(Result(FALSE, <<>>, <<Err("cannot identify image file")>>, 1), f, <<>>)
        ELSE IF rc.raised
        THEN Outcome(Result(FALSE, <<>>, <<Err("File name too long")>>, 1), f, <<>>)
        ELSE IF job.overwrite_policy = "Skip" /\ PathExists(f, out_path).val
        THEN Outcome(Result(TRUE, <<out_path>>, <<>>, 1), f, <<>>)
        ELSE IF OpenFails(f, out_path)
        THEN Outcome(Result(FALSE, <<>>, <<Err(OpenError(f, out_path))>>, 1), f, <<>>)
        ELSE Outcome(Result(TRUE, <<out_path>>, <<>>, 1), WriteFile(f, out_path, IMAGE_DATA), <<ONE>>)

\* _page_size_to_points: the page sizes that give a size in points; the
\* name is compared in lower case, every other name gives None
page_size_to_points(page_size) ==
    IF page_size \in {"A4", "a4"} THEN "a4"
    ELSE IF page_size \in {"Letter", "letter", "LETTER"} THEN "letter"
    ELSE "none"

\* lines 167-177 and 201-211: the layout.  With a page size in points the
\* code reads img2pdf.FitMode.SHRINK or img2pdf.FitMode.FILL; the members
\* of that enumeration are named in lower case, so the lookup raises
\* AttributeError, whose text is the name looked up.
LayoutRaises(page_size, fit_mode, margins_mm) == page_size_to_points(page_size) # "none"
LayoutError(fit_mode) == IF fit_mode \in {"Fit", "fit", "FIT"} THEN "SHRINK" ELSE "FILL"

\* convert_images_to_single_pdf(input_images, output_path, page_size,
\* fit_mode, margins_mm): the layout is built first; the file is opened for
\* writing before img2pdf.convert reads the images
images_to_single_pdf(f, input_images, output_path, page_size, fit_mode, margins_mm) ==
    IF LayoutRaises(page_size, fit_mode, margins_mm)
    THEN Outcome(Result(FALSE, <<>>, <<Err(LayoutError(fit_mode))>>, 0), f, <<>>)
    ELSE IF OpenFails(f, output_path)
    THEN Outcome(Result(FALSE, <<>>, <<Err(OpenError(f, output_path))>>, 0), f, <<>>)
    ELSE IF \E i \in 1..Len(input_images) : ~ReadableImage(f, input_images[i])
    THEN Outcome(Result(FALSE, <<>>, <<Err("cannot read input image")>>, 0),
                 WriteFile(f, output_path, EMPTY_DATA), <<>>)
    ELSE Outcome(Result(TRUE, <<output_path>>, <<>>, 0),
                 WriteFile(f, output_path, PdfData(Len(input_images))), <<>>)

\* _images_to_pdf_separate(job)
images_to_pdf_separate(f, job) ==
    LET stem == ExpandStem(job, PathStem(job.input_path) \o <<"_", "p", "d", "f">>, <<>>)
        built == build_output_path(job.output_dir, stem, <<".", "p", "d", "f">>)
        rc == resolve_collision(f, built, job.overwrite_policy)
        out_path == rc.val
    IN  IF LayoutRaises(job.page_size, job.fit_mode, job.margins_mm)
        THEN Outcome(Result(FALSE, <<>>, <<Err(LayoutError(job.fit_mode))>>, 1), f, <<>>)
        ELSE IF rc.raised
        THEN Outcome(Result(FALSE, <<>>, <<Err("File name too long")>>, 1), f, <<>>)
        ELSE IF job.overwrite_policy = "Skip" /\ PathExists(f, out_path).val
        THEN Outcome(Result(TRUE, <<out_path>>, <<>>, 1), f, <<>>)
        ELSE IF OpenFails(f, out_path)
        THEN Outcome(Result(FALSE, <<>>, <<Err(OpenError(f, out_path))>>, 1), f, <<>>)
        ELSE IF ~ReadableImage(f, job.input_path)
        THEN Outcome(Result(FALSE, <<>>, <<Err("cannot read input image")>>, 1),
                     WriteFile(f, out_path, EMPTY_DATA), <<>>)
        ELSE Outcome(Result(TRUE, <<out_path>>, <<>>, 1),
                     WriteFile(f, out_path, PdfData(1)), <<ONE>>)

\* a dispatch that sends every image, HEIC or not, to _to_jpg_png under a
\* HEIC mode
RouteAnyImage(job) ==
    IF (is_heic_file(job.input_path) \/ is_image_file(job.input_path))
       /\ job.mode \in {M_HEIC_JPG, M_HEIC_PNG} THEN "to_jpg_png"
    ELSE IF is_image_file(job.input_path) /\ job.mode = M_SEPARATE THEN "images_to_pdf_separate"
    ELSE IF is_pdf_file(job.input_path) /\ job.mode \in {M_PDF_JPG, M_PDF_PNG} THEN "pdf_to_images"
    ELSE "unsupported"

\* convert_job: the function the job is dispatched to
Route(job) ==
    IF is_heic_file(job.input_path) /\ job.mode \in {M_HEIC_JPG, M_HEIC_PNG} THEN "to_jpg_png"
    ELSE IF is_image_file(job.input_path) /\ job.mode = M_SEPARATE THEN "images_to_pdf_separate"
    ELSE IF is_pdf_file(job.input_path) /\ job.mode \in {M_PDF_JPG, M_PDF_PNG} THEN "pdf_to_images"
    ELSE "unsupported"

UNSUPPORTED == Result(FALSE, <<>>, <<Err("Unsupported input/mode combination")>>, 0)

\* --------------------------------------------------- parse_page_range

DIGITS == <<"0", "1", "2", "3", "4", "5", "6", "7", "8", "9">>
IsDigit(c) == \E k \in 1..10 : DIGITS[k] = c
DigitVal(c) == (CHOOSE k \in 1..10 : DIGITS[k] = c) - 1

\* str.split(sep): the parts between the occurrences of sep
RECURSIVE SplitOn(_, _, _)
SplitOn(s, sep, cur) ==
    IF s = <<>> THEN <<cur>>
    ELSE IF Head(s) = sep THEN <<cur>> \o SplitOn(Tail(s), sep, <<>>)
    ELSE SplitOn(Tail(s), sep, Append(cur, Head(s)))

RECURSIVE NatOf(_, _)
NatOf(s, acc) == IF s = <<>> THEN acc ELSE NatOf(Tail(s), 10 * acc + DigitVal(Head(s)))

\* int(s): [raised, val]; surrounding whitespace and one sign are accepted
IntOf(s) ==
    LET t == Strip(s, WHITESPACE)
        signed == t # <<>> /\ Head(t) \in {"+", "-"}
        body == IF signed THEN Tail(t) ELSE t
        valid == body # <<>> /\ \A i \in 1..Len(body) : IsDigit(body[i])
    IN  IF ~valid THEN [raised |-> TRUE, val |-> 0]
        ELSE [raised |-> FALSE,
              val |-> IF signed /\ Head(t) = "-" THEN 0 - NatOf(body, 0) ELSE NatOf(body, 0)]

\* every number written as "1"
IntStrOne(n) == <<"1">>

\* str(n)
IntStr(n) == IF n < 0 THEN <<"-">> \o Digits(0 - n) ELSE Digits(n)

\* list(range(a, b + 1))
RangeList(a, b) == IF b < a THEN <<>> ELSE [i \in 1..(b - a + 1) |-> a + i - 1]

\* the pages one comma-separated part contributes
PartPages(raw) ==
    LET part == Strip(raw, WHITESPACE)
        dash == Min({i \in 1..Len(part) : part[i] = "-"})
        start_s == SubSeq(part, 1, dash - 1)
        end_s == SubSeq(part, dash + 1, Len(part))
        start0 == IntOf(start_s).val
        end0 == IntOf(end_s).val
        start1 == IF start0 <= 0 THEN 1 ELSE start0
        lo == IF end0 < start1 THEN end0 ELSE start1
        hi == IF end0 < start1 THEN start1 ELSE end0
    IN  IF part = <<>> THEN <<>>
        ELSE IF \E i \in 1..Len(part) : part[i] = "-"
        THEN (IF IntOf(start_s).raised \/ IntOf(end_s).raised THEN <<>> ELSE RangeList(lo, hi))
        ELSE IF IntOf(part).raised \/ IntOf(part).val <= 0 THEN <<>>
        ELSE <<IntOf(part).val>>

RECURSIVE AllPages(_)
AllPages(parts) == IF parts = <<>> THEN <<>> ELSE PartPages(Head(parts)) \o AllPages(Tail(parts))

\* de-duplicate in first-seen order, dropping the pages beyond max_pages
RECURSIVE Ordered(_, _, _)
Ordered(pages, max_pages, acc) ==
    IF pages = <<>> THEN acc
    ELSE LET n == Head(pages)
             seen == {acc[i] : i \in 1..Len(acc)}
         IN  IF n \in seen \/ (max_pages # 0 /\ n > max_pages)
             THEN Ordered(Tail(pages), max_pages, acc)
             ELSE Ordered(Tail(pages), max_pages, Append(acc, n))

parse_page_range(page_range, max_pages) ==
    IF page_range = <<>> THEN RangeList(1, max_pages)
    ELSE Ordered(AllPages(SplitOn(page_range, ",", <<>>)), max_pages, <<>>)

\* ----------------------------------------- _pdf_to_images, page by page

\* what the body of the page loop does for page_no:
\* [failed, err, out, fs]
pdf_page(f, job, page_no) ==
    LET total_pages == f[job.input_path].pages
        ext == IF EndsWithJPG(job.mode) THEN <<".", "j", "p", "g">> ELSE <<".", "p", "n", "g">>
        stem == ExpandStem(job,
                           PathStem(job.input_path) \o <<"_", "p", "a", "g", "e", "-">> \o IntStr(page_no),
                           IntStr(page_no))
        built == build_output_path(job.output_dir, stem, ext)
        rc == resolve_collision(f, built, job.overwrite_policy)
        out_path == rc.val
        fail(msg) == [failed |-> TRUE, err |-> PageErr(page_no, msg), out |-> built, fs |-> f]
    IN  IF page_no - 1 >= total_pages THEN fail("page not in document")
        ELSE IF rc.raised THEN fail("File name too long")
        ELSE IF job.overwrite_policy = "Skip" /\ PathExists(f, out_path).val
        THEN [failed |-> FALSE, err |-> PageErr(page_no, ""), out |-> out_path, fs |-> f]
        ELSE IF OpenFails(f, out_path) THEN fail(OpenError(f, out_path))
        ELSE [failed |-> FALSE, err |-> PageErr(page_no, ""), out |-> out_path,
              fs |-> WriteFile(f, out_path, IMAGE_DATA)]

\* the pages the loop visits: the parsed range, or every page when it is empty
pages_list_of(f, job) ==
    LET total_pages == f[job.input_path].pages
        parsed == parse_page_range(job.page_range, total_pages)
    IN  IF parsed = <<>> THEN RangeList(1, total_pages) ELSE parsed

\* float(job.dpi) raises on a dpi that is no number
NUMERIC_DPI == {"72", "100", "200"}
FloatRaises(dpi) == dpi \notin NUMERIC_DPI

\* ----------------------------------------------------------- fixtures
\* The files and job specifications the runs are drawn from.

File(directory, name) == [dir |-> directory, name |-> name]

F_A == File(DIR_IN, <<"a", ".", "h", "e", "i", "c">>)
F_X == File(DIR_IN, <<"x", ".", "h", "e", "i", "c">>)
F_P == File(DIR_IN, <<"p", ".", "j", "p", "g">>)
F_Q == File(DIR_IN, <<"q", ".", "P", "N", "G">>)
F_Z == File(DIR_IN, <<"z", ".", "j", "p", "g">>)
F_D == File(DIR_IN, <<"d", ".", "p", "d", "f">>)
F_E == File(DIR_IN, <<"e", ".", "p", "d", "f">>)

\* the source files: x.heic and z.jpg do not decode, d.pdf has two pages,
\* e.pdf three
SOURCES ==
    (F_A :> IMAGE_DATA) @@ (F_X :> [kind |-> "garbage", pages |-> 0]) @@
    (F_P :> IMAGE_DATA) @@ (F_Q :> IMAGE_DATA) @@
    (F_Z :> [kind |-> "garbage", pages |-> 0]) @@ (F_D :> PdfData(2)) @@
    (F_E :> PdfData(3))

\* an output of an earlier run that may already be there
F_OLD == File(DIR_OUT, <<"p", "_", "m", "e", "r", "g", "e", "d", ".", "p", "d", "f">>)
OLD_DATA == PdfData(1)

\* JobSpec; quality and preserve_exif_orientation change no result and are left out
JobSpec(input_path, mode, naming_pattern, overwrite_policy, dpi, page_range, page_size, fit_mode, margins_mm) ==
    [input_path |-> input_path, mode |-> mode, output_dir |-> DIR_OUT,
     naming_pattern |-> naming_pattern, overwrite_policy |-> overwrite_policy,
     dpi |-> dpi, page_range |-> page_range,
     page_size |-> page_size, fit_mode |-> fit_mode, margins_mm |-> margins_mm]

J_HEIC == JobSpec(F_A, M_HEIC_JPG, <<"{name}">>, "Overwrite", "200", <<>>, "Auto", "Fit", 0)
J_HEIC_BAD == JobSpec(F_X, M_HEIC_JPG, <<"{name}">>, "Overwrite", "200", <<>>, "Auto", "Fit", 0)
J_MERGE_P == JobSpec(F_P, M_MERGED, <<>>, "Skip", "200", <<>>, "A4", "Fit", 10)
J_MERGE_Z == JobSpec(F_Z, M_MERGED, <<"m">>, "Overwrite", "200", <<>>, "Letter", "Fill", 5)
J_MERGE_HEIC == JobSpec(F_A, M_MERGED, <<"{name}">>, "Skip", "200", <<>>, "Auto", "Fit", 0)
J_SEP_P == JobSpec(F_P, M_SEPARATE, <<"{name}">>, "Auto-rename", "200", <<>>, "Auto", "Fit", 0)
J_SEP_LONG == JobSpec(F_Q, M_SEPARATE, <<"{name}", LONGRUN>>, "Auto-rename", "200", <<>>, "Auto", "Fill", 0)
J_PDF == JobSpec(F_D, M_PDF_PNG, <<"{name}", "_", "{page}">>, "Overwrite", "200", <<>>, "Auto", "Fit", 0)
J_PDF_DPI == JobSpec(F_D, M_PDF_JPG, <<"{name}", "_", "{page}">>, "Overwrite", "None", <<>>, "Auto", "Fit", 0)
\* the target of page 2 is the directory DIR_BLOCK
J_PDF_BLOCK == JobSpec(F_E, M_PDF_PNG, <<"{name}", "_", "{page}">>, "Overwrite", "100", <<>>, "Auto", "Fit", 0)
\* a page range no token of which is a number
J_PDF_RANGE == JobSpec(F_D, M_PDF_PNG, <<"r", "{page}">>, "Overwrite", "100", <<"x", ",", "2", "-">>, "Auto", "Fit", 0)

JobPool ==
    {J_HEIC, J_HEIC_BAD, J_MERGE_P, J_MERGE_Z, J_MERGE_HEIC, J_SEP_P, J_SEP_LONG, J_PDF, J_PDF_DPI,
     J_PDF_BLOCK, J_PDF_RANGE}

MaxJobs == 3

JobLists == UNION {[1..n -> JobPool] : n \in 0..MaxJobs}

\* ------------------------------------------------------------- worker
\* jobs    ConversionWorker._jobs
\* cancel  ConversionWorker._cancel_event
\* fs      the files on disk
\* pc      where run() is: "ready" (constructed, run() not yet entered),
\*         "loop" (line 117, before the cancel check of job idx), "call"
\*         (line 125, convert_job about to run), "pages" (inside the page
\*         loop of _pdf_to_images), "merge" (line 98, the merge in flight),
\*         "done" (run() returned), "crashed" (an exception left run())
\* idx     the position of the per-item loop, 1-based (the row is idx - 1)
\* ok, failed   the counters of run()
\* frame   the locals of the _pdf_to_images call in flight
\* events  the signals emitted so far, in emission order
\* calls   the conversion functions invoked so far, in invocation order
\* window  LiteConvertWindow: _worker (a worker is referenced), running
\*         (_toggle_running; FALSE with _worker TRUE while the dialog of
\*         _on_finished is open), output_dir (the directory of the last Start),
\*         starts (the workers created so far), last (what the last handler
\*         of the window did)
VARIABLES jobs, cancel, fs, pc, idx, ok, failed, frame, events, calls, window

vars == <<jobs, cancel, fs, pc, idx, ok, failed, frame, events, calls, window>>

\* the window after construction (ui.py line 89)
NO_WINDOW == [_worker |-> FALSE, running |-> FALSE, output_dir |-> <<>>, starts |-> 0,
              last |-> "none"]

NoFrame == [pages_list |-> <<>>, pos |-> 0, outputs |-> <<>>, errors |-> <<>>]

\* signals; `at` is the position of the enumerate loop that emits the signal
\* (0 outside a loop) and is no part of the payload
EvStatus(at, kind, name) == [sig |-> "status", at |-> at, kind |-> kind, name |-> name]
EvProgressItem(at, row, p) == [sig |-> "progressItem", at |-> at, row |-> row, p |-> p]
EvProgressTotal(at, p) == [sig |-> "progressTotal", at |-> at, p |-> p]
EvItemDone(at, row, res) == [sig |-> "itemDone", at |-> at, row |-> row, res |-> res]
EvError(at, row, msg) == [sig |-> "error", at |-> at, row |-> row, msg |-> msg]
EvFinished(total, n_ok, n_failed) ==
    [sig |-> "finished", total |-> total, ok |-> n_ok, failed |-> n_failed]

\* a clamp that bounds the value from above only
ClampAbove(p) == IF p[1] > p[2] THEN ONE ELSE p

\* fractions <<n, d>> with d > 0; max(0.0, min(1.0, p))
Clamp01(p) == IF p[1] < 0 THEN <<0, 1>> ELSE IF p[1] > p[2] THEN ONE ELSE p

Total == Len(jobs)
\* a denominator one above the number of jobs
TotalDenOff == Total + 1
TotalDen == IF Total < 1 THEN 1 ELSE Total

Init ==
    /\ jobs \in JobLists
    /\ fs \in {SOURCES, (F_OLD :> OLD_DATA) @@ SOURCES}
    /\ cancel = FALSE
    /\ pc = "ready"
    /\ idx = 0
    /\ ok = 0
    /\ failed = 0
    /\ frame = NoFrame
    /\ events = <<>>
    /\ calls = <<>>
    /\ window = NO_WINDOW

\* ConversionWorker.cancel, called from the interactive thread
Cancel ==
    /\ ~cancel
    /\ cancel' = TRUE
    /\ UNCHANGED <<jobs, fs, pc, idx, ok, failed, frame, events, calls>>
    /\ UNCHANGED window

\* ---- run(): the merged branch (lines 67-114)

merged_mode == \E i \in 1..Len(jobs) : jobs[i].mode = M_MERGED

\* the positions of the jobs whose input is an image, in queue order
ImageRows ==
    SelectSeq([i \in 1..Len(jobs) |-> i], LAMBDA i : is_image_file(jobs[i].input_path))

image_jobs == [k \in 1..Len(ImageRows) |-> jobs[ImageRows[k]]]

TakesMergedBranch == merged_mode /\ image_jobs # <<>>

\* lines 75-86: the output path of the merge, [raised, val]
MergedPath(f, first) ==
    LET stem == ExpandStem(first, PathStem(first.input_path) \o <<"_", "m", "e", "r", "g", "e", "d">>, <<>>)
    IN  resolve_collision(f, PathJoin(first.output_dir, stem \o <<".", "p", "d", "f">>),
                          first.overwrite_policy)

\* line 87
MergedSkips(f, first) ==
    first.overwrite_policy = "Skip" /\ PathExists(f, MergedPath(f, first).val).val

\* min(1.0, p)
MinOne(p) == IF p[1] > p[2] THEN ONE ELSE p

\* lines 89-93 and 106-112: the signals of the loop over all jobs, from position i
RECURSIVE MergedLoop(_, _)
MergedLoop(i, res) ==
    IF i > Total THEN <<>>
    ELSE (IF is_image_file(jobs[i].input_path)
          THEN <<EvProgressItem(i, i - 1, ONE), EvItemDone(i, i - 1, res)>>
          ELSE <<>>)
         \o <<EvProgressTotal(i, MinOne(<<i, TotalDen>>))>>
         \o MergedLoop(i + 1, res)

\* line 94
SkipSummary == EvFinished(Total, Len(image_jobs), 0)

\* lines 110-111, summed over the loop
MergedOk(res) == IF res.success THEN Len(image_jobs) ELSE 0
MergedFailed(res) == IF res.success THEN 0 ELSE Len(image_jobs)

\* lines 98-104: the invocation of convert_images_to_single_pdf
MergeCall(f, first) ==
    [fn |-> "convert_images_to_single_pdf",
     input_images |-> [k \in 1..Len(image_jobs) |-> image_jobs[k].input_path],
     output_path |-> MergedPath(f, first).val,
     page_size |-> first.page_size, fit_mode |-> first.fit_mode,
     margins_mm |-> first.margins_mm]

\* run() enters the per-item loop
RunPerItem ==
    /\ pc = "ready"
    /\ ~TakesMergedBranch
    /\ pc' = "loop"
    /\ idx' = 1
    /\ UNCHANGED <<jobs, cancel, fs, ok, failed, frame, events, calls>>
    /\ UNCHANGED window

\* the existence check of lines 86-87 raises: nothing in run() catches it
RunMergedRaises ==
    /\ pc = "ready"
    /\ TakesMergedBranch
    /\ MergedPath(fs, image_jobs[1]).raised
    /\ pc' = "crashed"
    /\ UNCHANGED <<jobs, cancel, fs, idx, ok, failed, frame, events, calls>>
    /\ UNCHANGED window

\* lines 87-95: policy Skip and the target exists
RunMergedSkip ==
    /\ pc = "ready"
    /\ TakesMergedBranch
    /\ ~MergedPath(fs, image_jobs[1]).raised
    /\ MergedSkips(fs, image_jobs[1])
    /\ events' = events
                 \o MergedLoop(1, Result(TRUE, <<MergedPath(fs, image_jobs[1]).val>>, <<>>, 0))
                 \o <<SkipSummary>>
    /\ pc' = "done"
    /\ UNCHANGED <<jobs, cancel, fs, idx, ok, failed, frame, calls>>
    /\ UNCHANGED window

\* lines 97-98: the status signal, then the merge is invoked
RunMergedCall ==
    /\ pc = "ready"
    /\ TakesMergedBranch
    /\ ~MergedPath(fs, image_jobs[1]).raised
    /\ ~MergedSkips(fs, image_jobs[1])
    /\ events' = Append(events, EvStatus(0, "Merging", <<>>))
    /\ calls' = Append(calls, MergeCall(fs, image_jobs[1]))
    /\ pc' = "merge"
    /\ UNCHANGED <<jobs, cancel, fs, idx, ok, failed, frame>>
    /\ UNCHANGED window

\* lines 98-114: the merge returns, every image job is marked, the summary is emitted
MergeReturn ==
    /\ pc = "merge"
    /\ LET call == calls[Len(calls)]
           o == images_to_single_pdf(fs, call.input_images, call.output_path,
                                     call.page_size, call.fit_mode, call.margins_mm)
       IN  /\ fs' = o.fs
           /\ ok' = ok + MergedOk(o.res)
           /\ failed' = failed + MergedFailed(o.res)
           /\ events' = events \o MergedLoop(1, o.res)
                        \o <<EvFinished(Total, ok + MergedOk(o.res), failed + MergedFailed(o.res))>>
    /\ pc' = "done"
    /\ UNCHANGED <<jobs, cancel, idx, frame, calls>>
    /\ UNCHANGED window

\* ---- run(): the per-item loop (lines 116-137)

\* the cancel check left out
LoopNeverBreaks == FALSE

\* line 118
LoopBreaks == cancel

\* lines 117-119 and 137: the loop ends or breaks, the summary is emitted
LoopExit ==
    /\ pc = "loop"
    /\ (idx > Total \/ LoopBreaks)
    /\ events' = Append(events, EvFinished(Total, ok, failed))
    /\ pc' = "done"
    /\ UNCHANGED <<jobs, cancel, fs, idx, ok, failed, frame, calls>>
    /\ UNCHANGED window

\* lines 118-120: not cancelled, the status signal of job idx
JobStart ==
    /\ pc = "loop"
    /\ idx <= Total
    /\ ~LoopBreaks
    /\ events' = Append(events, EvStatus(idx, "Processing", jobs[idx].input_path.name))
    /\ pc' = "call"
    /\ UNCHANGED <<jobs, cancel, fs, idx, ok, failed, frame, calls>>
    /\ UNCHANGED window

\* line 123: on_progress
ProgressSignals(progress) ==
    [k \in 1..Len(progress) |-> EvProgressItem(idx, idx - 1, Clamp01(progress[k]))]

\* every returned result counted as a success
OkAfterAlways(res) == ok + 1

\* lines 127-131
OkAfter(res) == IF res.success THEN ok + 1 ELSE ok
FailedAfter(res) == IF res.success THEN failed ELSE failed + 1

\* the batch progress emitted before the completion signal
JobReturnsTotalFirst(res, f, progress) ==
    /\ fs' = f
    /\ events' = events \o ProgressSignals(progress)
                 \o <<EvProgressTotal(idx, <<idx, TotalDen>>), EvItemDone(idx, idx - 1, res)>>
    /\ ok' = OkAfter(res)
    /\ failed' = FailedAfter(res)
    /\ idx' = idx + 1
    /\ pc' = "loop"
    /\ frame' = NoFrame

\* lines 126-131 and 135: convert_job returned res
JobReturns(res, f, progress) ==
    /\ fs' = f
    /\ events' = events \o ProgressSignals(progress)
                 \o <<EvItemDone(idx, idx - 1, res), EvProgressTotal(idx, <<idx, TotalDen>>)>>
    /\ ok' = OkAfter(res)
    /\ failed' = FailedAfter(res)
    /\ idx' = idx + 1
    /\ pc' = "loop"
    /\ frame' = NoFrame

\* the handler without the batch progress of line 135
JobRaisesNoTotal(msg) ==
    /\ events' = Append(events, EvError(idx, idx - 1, msg))
    /\ failed' = failed + 1
    /\ idx' = idx + 1
    /\ pc' = "loop"
    /\ frame' = NoFrame
    /\ UNCHANGED <<fs, ok>>

\* lines 132-135: convert_job raised
JobRaises(msg) ==
    /\ events' = events \o <<EvError(idx, idx - 1, msg), EvProgressTotal(idx, <<idx, TotalDen>>)>>
    /\ failed' = failed + 1
    /\ idx' = idx + 1
    /\ pc' = "loop"
    /\ frame' = NoFrame
    /\ UNCHANGED <<fs, ok>>

ConvertJobCall == [fn |-> "convert_job", row |-> idx - 1]

\* convert_job on a job that one call converts (or rejects)
CallWhole ==
    /\ pc = "call"
    /\ Route(jobs[idx]) # "pdf_to_images"
    /\ calls' = Append(calls, ConvertJobCall)
    /\ LET job == jobs[idx]
           o == CASE Route(job) = "to_jpg_png" ->
                       to_jpg_png(fs, job, IF EndsWithJPG(job.mode) THEN <<"J", "P", "G">>
                                                                    ELSE <<"P", "N", "G">>)
                  [] Route(job) = "images_to_pdf_separate" -> images_to_pdf_separate(fs, job)
                  [] OTHER -> Outcome(UNSUPPORTED, fs, <<>>)
       IN  JobReturns(o.res, o.fs, o.progress)
    /\ UNCHANGED <<jobs, cancel>>
    /\ UNCHANGED window

\* convert_job on a PDF job, lines 244-259 of _pdf_to_images
CallPdf ==
    /\ pc = "call"
    /\ Route(jobs[idx]) = "pdf_to_images"
    /\ calls' = Append(calls, ConvertJobCall)
    /\ LET job == jobs[idx]
       IN  IF ~ReadablePdf(fs, job.input_path)
           THEN JobReturns(Result(FALSE, <<>>, <<Err("cannot open document")>>, 0), fs, <<>>)
           ELSE IF FloatRaises(job.dpi)
           THEN JobRaises("float() argument must be a string or a real number")
           ELSE IF pages_list_of(fs, job) = <<>>
           THEN JobReturns(Result(TRUE, <<>>, <<>>, 0), fs, <<>>)
           ELSE /\ frame' = [pages_list |-> pages_list_of(fs, job), pos |-> 1,
                             outputs |-> <<>>, errors |-> <<>>]
                /\ pc' = "pages"
                /\ UNCHANGED <<fs, idx, ok, failed, events>>
    /\ UNCHANGED <<jobs, cancel>>
    /\ UNCHANGED window

\* the page loop without its cancel check
PageLoopNeverBreaks == FALSE

\* line 262
PageLoopBreaks == cancel

\* a result that counts the failed pages among its pages
PdfResultCountsAll(outputs, errors) ==
    Result(errors = <<>>, outputs, errors, Len(outputs) + Len(errors))

\* line 290
PdfResult(outputs, errors) == Result(errors = <<>>, outputs, errors, Len(outputs))

\* lines 262-263: cancelled before the next page
PdfCancelled ==
    /\ pc = "pages"
    /\ PageLoopBreaks
    /\ JobReturns(PdfResult(frame.outputs, frame.errors), fs, <<>>)
    /\ UNCHANGED <<jobs, cancel, calls>>
    /\ UNCHANGED window

\* lines 261-287: one page; after the last one the function returns
PdfPage ==
    /\ pc = "pages"
    /\ ~PageLoopBreaks
    /\ LET job == jobs[idx]
           n == Len(frame.pages_list)
           r == pdf_page(fs, job, frame.pages_list[frame.pos])
           outputs == IF r.failed THEN frame.outputs ELSE Append(frame.outputs, r.out)
           errors == IF r.failed THEN Append(frame.errors, r.err) ELSE frame.errors
           p == <<frame.pos, n>>
       IN  IF frame.pos = n
           THEN JobReturns(PdfResult(outputs, errors), r.fs, <<p>>)
           ELSE /\ fs' = r.fs
                /\ frame' = [frame EXCEPT !.pos = @ + 1, !.outputs = outputs, !.errors = errors]
                /\ events' = events \o ProgressSignals(<<p>>)
                /\ UNCHANGED <<pc, idx, ok, failed>>
    /\ UNCHANGED <<jobs, cancel, calls>>
    /\ UNCHANGED window

\* the steps of the worker thread
WorkerNext ==
    \/ RunPerItem
    \/ RunMergedRaises
    \/ RunMergedSkip
    \/ RunMergedCall
    \/ MergeReturn
    \/ LoopExit
    \/ JobStart
    \/ CallWhole
    \/ CallPdf
    \/ PdfCancelled
    \/ PdfPage

Next == Cancel \/ WorkerNext

Spec == Init /\ [][Next]_vars

\* ------------------------------------- the functions called on their own
\* A second specification: calls of convert_job with no is_cancelled, made
\* up to MaxCalls times on the same job, or one call of parse_page_range or
\* _resolve_collision, with arguments drawn from bounded sets, or calls of
\* the worker's on_progress with a list of values.  `frame` holds the call
\* to make, `calls` the call made with the value it returned, `events` the
\* values the progress callback of convert_job received, or the signals
\* the worker's on_progress emitted.

\* what the caller's on_progress does: not given, returns, or raises
CALLBACKS == {"none", "returns", "raises"}

\* lines 132-136 of _to_jpg_png and 230-234 of _images_to_pdf_separate: the
\* callback is called after the output was appended, inside the try
WithCallback(o, on_progress) ==
    IF o.progress = <<>> \/ on_progress = "returns" THEN o
    ELSE IF on_progress = "none" THEN Outcome(o.res, o.fs, <<>>)
    ELSE Outcome(Result(FALSE, o.res.outputs, <<Err("callback failed")>>, o.res.pages),
                 o.fs, o.progress)

\* an exception that leaves the function: no result
NO_RESULT == Result(FALSE, <<>>, <<>>, 0)
Returns(o) == [res |-> o.res, fs |-> o.fs, progress |-> o.progress, raised |-> FALSE]
Raises(f, progress) == [res |-> NO_RESULT, fs |-> f, progress |-> progress, raised |-> TRUE]

\* lines 264-285: what one page adds to outputs, errors and the file system
PageStep(acc, r) ==
    [outputs |-> IF r.failed THEN acc.outputs ELSE Append(acc.outputs, r.out),
     errors |-> IF r.failed THEN Append(acc.errors, r.err) ELSE acc.errors,
     fs |-> r.fs]

\* lines 261-287 of _pdf_to_images run to the end of pages_list, with no
\* is_cancelled: [outputs, errors, fs].  Each page is bound by a quantifier
\* so that it is computed once.
RECURSIVE PdfLoop(_, _, _, _)
PdfLoop(job, pages_list, pos, acc) ==
    IF pos > Len(pages_list) THEN acc
    ELSE CHOOSE l \in {PdfLoop(job, pages_list, pos + 1, a) :
                          a \in {PageStep(acc, pdf_page(acc.fs, job, pages_list[pos]))}} : TRUE

\* line 290, and the values on_progress received
PdfReturn(l, n, on_progress) ==
    Returns(Outcome(PdfResult(l.outputs, l.errors), l.fs,
                    IF on_progress = "none" THEN <<>> ELSE [k \in 1..n |-> <<k, n>>]))

\* lines 259-290, once pages_list is known
PdfPages(f, job, on_progress, pages_list) ==
    IF pages_list = <<>> THEN Returns(Outcome(Result(TRUE, <<>>, <<>>, 0), f, <<>>))
    ELSE IF on_progress = "raises"
    THEN Raises(pdf_page(f, job, pages_list[1]).fs, <<<<1, Len(pages_list)>>>>)
    ELSE PdfReturn(PdfLoop(job, pages_list, 1, [outputs |-> <<>>, errors |-> <<>>, fs |-> f]),
                   Len(pages_list), on_progress)

\* _pdf_to_images(job, fmt, on_progress, None): float(job.dpi) and the
\* progress callback are outside the page's try, so what they raise leaves
\* the function
pdf_to_images(f, job, on_progress) ==
    IF ~ReadablePdf(f, job.input_path)
    THEN Returns(Outcome(Result(FALSE, <<>>, <<Err("cannot open document")>>, 0), f, <<>>))
    ELSE IF FloatRaises(job.dpi) THEN Raises(f, <<>>)
    ELSE CHOOSE o \in {PdfPages(f, job, on_progress, l) : l \in {pages_list_of(f, job)}} : TRUE

\* convert_job(job, on_progress, None): [res, fs, progress, raised]
convert_job(f, job, on_progress) ==
    CASE Route(job) = "to_jpg_png" ->
           Returns(WithCallback(to_jpg_png(f, job, IF EndsWithJPG(job.mode) THEN <<"J", "P", "G">>
                                                                             ELSE <<"P", "N", "G">>),
                                on_progress))
      [] Route(job) = "images_to_pdf_separate" ->
           Returns(WithCallback(images_to_pdf_separate(f, job), on_progress))
      [] Route(job) = "pdf_to_images" -> pdf_to_images(f, job, on_progress)
      [] OTHER -> Returns(Outcome(UNSUPPORTED, f, <<>>))

SingleFileJobs == {j \in JobPool : Route(j) # "pdf_to_images"}

\* two more inputs: an upper-case HEIF image and a text file
F_H == File(DIR_IN, <<"h", ".", "H", "E", "I", "F">>)
F_T == File(DIR_IN, <<"t", ".", "t", "x", "t">>)
FN_SOURCES == (F_H :> IMAGE_DATA) @@ (F_T :> [kind |-> "garbage", pages |-> 0]) @@ SOURCES

\* every input class under every mode
DispatchInputs == {F_A, F_H, F_P, F_Q, F_D, F_T}
DispatchJobs ==
    {JobSpec(q, m, <<"{name}">>, "Overwrite", "200", <<>>, "Auto", "Fit", 0) :
        q \in DispatchInputs, m \in MODES}

\* PDF jobs on the two pages of d.pdf under a page range: ranges that name
\* pages of the document, and ranges none of whose pages the document has
PAGE_RANGES ==
    {<<"2">>, <<"2", ",", "1">>, <<"2", ",", "9">>, <<"9">>, <<"3", ",", "9">>, <<"7", "-", "8">>}
RangeJobs ==
    {JobSpec(F_D, M_PDF_PNG, <<"r", "{page}">>, "Overwrite", "100", r, "Auto", "Fit", 0) :
        r \in PAGE_RANGES}

\* PDF jobs on d.pdf whose pattern has no {page}, under each policy
SameNameJobs ==
    {JobSpec(F_D, M_PDF_JPG, <<"{name}">>, pol, "100", <<>>, "Auto", "Fit", 0) : pol \in POLICIES}

\* the layout options of a call: the defaults, margins alone, and the two
\* page sizes
Layouts ==
    {[page_size |-> "Auto", fit_mode |-> "Fit", margins_mm |-> 0],
     [page_size |-> "Auto", fit_mode |-> "Fill", margins_mm |-> 10],
     [page_size |-> "A4", fit_mode |-> "Fit", margins_mm |-> 10],
     [page_size |-> "Letter", fit_mode |-> "Fill", margins_mm |-> 5]}

\* separate-PDF jobs on a readable and on an unreadable image with a page size
LayoutJobs ==
    {JobSpec(q, M_SEPARATE, <<"{name}">>, pol, "200", <<>>, y.page_size, y.fit_mode, y.margins_mm) :
        q \in {F_P, F_Z}, pol \in {"Overwrite", "Skip"}, y \in Layouts}

\* the jobs convert_job is called on, and how often the same call is repeated
FnJobs == JobPool \cup DispatchJobs \cup RangeJobs \cup SameNameJobs \cup LayoutJobs
MaxCalls == 2

\* page-range strings: every string of at most MaxRangeLen characters of
\* RANGE_CHARS, and the example "1-3,5,2"
RANGE_CHARS == {"0", "1", "2", "-", ",", " "}
MaxRangeLen == 4
MaxPages == 3
RangeStrings ==
    UNION {[1..n -> RANGE_CHARS] : n \in 0..MaxRangeLen} \cup {<<"1", "-", "3", ",", "5", ",", "2">>}

\* settings.py.  JSON values carry their type; three fields of AppSettings
\* stand for the twelve: an int, a str and the Optional[bytes] one.
JSON_NULL == [t |-> "null"]
JSON_LIST == [t |-> "list"]
JsonNum(n) == [t |-> "num", v |-> n]
JsonStr(x) == [t |-> "str", v |-> x]
JsonObj(o) == [t |-> "obj", v |-> o]
Bytes(hex) == [t |-> "bytes", v |-> hex]

FIELDS == {"quality", "overwrite_policy", "window_geometry"}
\* AppSettings(): the built-in defaults
AppSettings == [quality |-> JsonNum(90), overwrite_policy |-> JsonStr("Auto-rename"),
                window_geometry |-> JSON_NULL]

\* the strings bytes.fromhex accepts
HEX_STRINGS == {"0a"}

\* the keys and values a persisted object is made of; "theme" is no field
KEYS == FIELDS \cup {"theme"}
VALUES == {JSON_NULL, JsonNum(80), JsonStr("Skip"), JsonStr("0a"), JsonStr("zz"), JSON_LIST}
Objects == UNION {[S -> VALUES] : S \in SUBSET KEYS}

\* what settings.json may be: not there, not readable as UTF-8 text, not
\* JSON, or a JSON document
SettingsFiles ==
    {[state |-> "missing"], [state |-> "unreadable"], [state |-> "invalid"]}
    \cup {[state |-> "json", data |-> d] :
             d \in {JSON_NULL, JSON_LIST, JsonNum(5), JsonStr("x")} \cup {JsonObj(o) : o \in Objects}}

\* SettingsManager.load: [raised, settings]; data.get is called outside the
\* try, and AppSettings(**known) accepts a value of any type
load(file) ==
    IF file.state # "json" THEN [raised |-> FALSE, settings |-> AppSettings]
    ELSE IF file.data.t # "obj" THEN [raised |-> TRUE, settings |-> AppSettings]
    ELSE LET data0 == file.data.v
             geom_hex == IF "window_geometry" \in DOMAIN data0 THEN data0["window_geometry"]
                         ELSE JSON_NULL
             data == IF geom_hex.t = "str"
                     THEN [data0 EXCEPT !["window_geometry"] =
                              IF geom_hex.v \in HEX_STRINGS THEN Bytes(geom_hex.v) ELSE JSON_NULL]
                     ELSE data0
         IN  [raised |-> FALSE,
              settings |-> [k \in FIELDS |-> IF k \in DOMAIN data THEN data[k] ELSE AppSettings[k]]]

\* convert_images_to_single_pdf called directly: lists of at most MaxImages
\* inputs and the places the merged file may be asked to go (a new file, an
\* existing one, an over-long name, a directory, a missing directory)
MaxImages == 2
ImageLists == UNION {[1..n -> {F_P, F_Q, F_Z}] : n \in 1..MaxImages}
F_NEW == File(DIR_OUT, <<"m", ".", "p", "d", "f">>)
F_NODIR == File(<<ROOT, <<"n">>>>, <<"m", ".", "p", "d", "f">>)
MergeTargets == {F_NEW, F_OLD, F_NODIR,
                 File(DIR_OUT, <<LONGRUN, ".", "p", "d", "f">>),
                 File(DIR_OUT, <<"e", "_", "2", ".", "p", "n", "g">>)}

\* paths handed to _resolve_collision: out.png, a name without a suffix, a
\* name that is only a suffix, a name longer than the file system allows,
\* and the place of the directory DIR_BLOCK
F_OUT == File(DIR_OUT, <<"o", "u", "t", ".", "p", "n", "g">>)
F_OUT_1 == File(DIR_OUT, <<"o", "u", "t", "_", "1", ".", "p", "n", "g">>)
F_OUT_2 == File(DIR_OUT, <<"o", "u", "t", "_", "2", ".", "p", "n", "g">>)
F_BARE == File(DIR_OUT, <<"o", "u", "t">>)
F_DOT == File(DIR_OUT, <<".", "p", "n", "g">>)
F_LONG == File(DIR_OUT, <<LONGRUN, ".", "p", "n", "g">>)
F_BLOCK == File(DIR_OUT, <<"e", "_", "2", ".", "p", "n", "g">>)
CollisionPaths == {F_OUT, F_BARE, F_DOT, F_LONG, F_BLOCK}

\* the file systems a path is resolved against: any of these files may be there
COLLIDING == {F_OUT, F_OUT_1, F_OUT_2, F_BARE, F_DOT}
CollisionFileSystems == {[q \in S |-> IMAGE_DATA] @@ SOURCES : S \in SUBSET COLLIDING}

\* the values a caller may pass to the worker's on_progress, as fractions:
\* below 0, 0, between 0 and 1, and above 1
ProgressValues == {<<0 - 1, 2>>, <<0, 1>>, <<1, 2>>, <<9, 10>>, <<3, 2>>}
MaxValues == 2
ValueLists == UNION {[1..n -> ProgressValues] : n \in 1..MaxValues}

FnCalls ==
    {[fn |-> "convert_job", job |-> j, on_progress |-> c] : j \in FnJobs, c \in CALLBACKS}
    \cup {[fn |-> "on_progress", idx |-> i, values |-> v] : i \in {1, 2}, v \in ValueLists}
    \cup {[fn |-> "parse_page_range", page_range |-> r, max_pages |-> m] :
             r \in RangeStrings, m \in 1..MaxPages}
    \cup {[fn |-> "resolve_collision", path |-> q, policy |-> pol] :
             q \in CollisionPaths, pol \in POLICIES}
    \cup {[fn |-> "load", file |-> c] : c \in SettingsFiles}
    \cup {[fn |-> "convert_images_to_single_pdf", input_images |-> l, output_path |-> q,
            page_size |-> y.page_size, fit_mode |-> y.fit_mode, margins_mm |-> y.margins_mm] :
             l \in ImageLists, q \in MergeTargets, y \in Layouts}

\* the file systems a call is made in
FileSystemsFor(call) ==
    IF call.fn = "resolve_collision" THEN CollisionFileSystems
    ELSE {FN_SOURCES, (F_OLD :> OLD_DATA) @@ FN_SOURCES}

FnInit ==
    /\ frame \in FnCalls
    /\ fs \in FileSystemsFor(frame)
    /\ pc = "fn"
    /\ jobs = <<>>
    /\ cancel = FALSE
    /\ idx = IF frame.fn = "on_progress" THEN frame.idx ELSE 0
    /\ ok = 0
    /\ failed = 0
    /\ events = <<>>
    /\ calls = <<>>
    /\ window = NO_WINDOW

FnConvertJob ==
    /\ pc \in {"fn", "returned"}
    /\ frame.fn = "convert_job"
    /\ Len(calls) < MaxCalls
    /\ LET o == convert_job(fs, frame.job, frame.on_progress)
       IN  /\ fs' = o.fs
           /\ events' = events \o o.progress
           /\ calls' = Append(calls, [call |-> frame, ret |-> o.res, raised |-> o.raised])
    /\ pc' = "returned"
    /\ UNCHANGED <<jobs, cancel, idx, ok, failed, frame>>
    /\ UNCHANGED window

FnParsePageRange ==
    /\ pc = "fn"
    /\ frame.fn = "parse_page_range"
    /\ calls' = <<[call |-> frame, ret |-> parse_page_range(frame.page_range, frame.max_pages)]>>
    /\ pc' = "returned"
    /\ UNCHANGED <<jobs, cancel, fs, idx, ok, failed, frame, events>>
    /\ UNCHANGED window

FnResolveCollision ==
    /\ pc = "fn"
    /\ frame.fn = "resolve_collision"
    /\ calls' = <<[call |-> frame, ret |-> resolve_collision(fs, frame.path, frame.policy)]>>
    /\ pc' = "returned"
    /\ UNCHANGED <<jobs, cancel, fs, idx, ok, failed, frame, events>>
    /\ UNCHANGED window

FnLoad ==
    /\ pc = "fn"
    /\ frame.fn = "load"
    /\ calls' = <<[call |-> frame, ret |-> load(frame.file)]>>
    /\ pc' = "returned"
    /\ UNCHANGED <<jobs, cancel, fs, idx, ok, failed, frame, events>>
    /\ UNCHANGED window

\* `events` keeps the list handed to img2pdf.convert, when it was reached
FnConvertImages ==
    /\ pc = "fn"
    /\ frame.fn = "convert_images_to_single_pdf"
    /\ LET o == images_to_single_pdf(fs, frame.input_images, frame.output_path,
                                     frame.page_size, frame.fit_mode, frame.margins_mm)
       IN  /\ fs' = o.fs
           /\ calls' = <<[call |-> frame, ret |-> o.res]>>
           /\ events' = IF LayoutRaises(frame.page_size, frame.fit_mode, frame.margins_mm)
                            \/ OpenFails(fs, frame.output_path) THEN <<>>
                         ELSE <<[sig |-> "img2pdf.convert", images |-> frame.input_images]>>
    /\ pc' = "returned"
    /\ UNCHANGED <<jobs, cancel, idx, ok, failed, frame>>
    /\ UNCHANGED window

\* workers.py lines 122-123: the closure on_progress of the job at loop
\* position idx, called with the next of the values; it returns nothing
FnOnProgress ==
    /\ pc \in {"fn", "returned"}
    /\ frame.fn = "on_progress"
    /\ Len(events) < Len(frame.values)
    /\ events' = events \o ProgressSignals(<<frame.values[Len(events) + 1]>>)
    /\ calls' = Append(calls, [call |-> frame, ret |-> NO_RESULT, raised |-> FALSE])
    /\ pc' = "returned"
    /\ UNCHANGED <<jobs, cancel, fs, idx, ok, failed, frame>>
    /\ UNCHANGED window

FnNext ==
    \/ FnConvertJob
    \/ FnParsePageRange
    \/ FnResolveCollision
    \/ FnLoad
    \/ FnConvertImages
    \/ FnOnProgress

FnSpec == FnInit /\ [][FnNext]_vars

\* ---------------------------------------------------- the window (ui.py)
\* A third specification: the Start and Cancel buttons and the `finished`
\* slot of LiteConvertWindow around the worker's run().  Before the first
\* Start no worker exists and pc is "idle".  The slots of the other signals
\* only repaint widgets.

\* the directories the output field may name: the output directory, the
\* input directory, which is read-only, and a path where a file is in the way
READ_ONLY == {DIR_IN}
DIR_FILE == AsDir(F_P)
OutputDirs == {DIR_OUT, DIR_IN, DIR_FILE}

\* a check of the output directory that lets every directory pass
EnsureNeverRaises(f, directory) == FALSE

\* ensure_writable_dir(directory) raises: mkdir meets a file, or the test
\* file cannot be opened for writing
ensure_writable_dir(f, directory) ==
    \/ \E k \in 1..Len(directory) :
          [dir |-> SubSeq(directory, 1, k - 1), name |-> directory[k]] \in DOMAIN f
    \/ directory \in READ_ONLY

\* lines 349-367: one JobSpec per table row, all with the options of the form
UiBatch(files, mode, pattern, policy, dpi) ==
    [k \in 1..Len(files) |->
        JobSpec(files[k], mode, Strip(pattern, WHITESPACE), policy, dpi, <<>>, "Auto", "Fit", 0)]

\* the same with the page size, fit mode and margins of the form
UiBatchSized(files, mode, pattern, policy, dpi, page_size, fit_mode, margins_mm) ==
    [k \in 1..Len(files) |->
        JobSpec(files[k], mode, Strip(pattern, WHITESPACE), policy, dpi, <<>>,
                page_size, fit_mode, margins_mm)]

\* what the table and the form may hold when Start is pressed
UiBatches ==
    {<<>>,
     UiBatchSized(<<F_P>>, M_SEPARATE, <<" ">>, "Skip", "200", "A4", "Fit", 0),
     UiBatchSized(<<F_Q, F_P>>, M_MERGED, <<"m">>, "Overwrite", "200", "Letter", "Fill", 5),
     UiBatch(<<F_A>>, M_HEIC_PNG, <<"{name}">>, "Skip", "200"),
     UiBatch(<<F_A, F_X>>, M_HEIC_JPG, <<"{index}">>, "Auto-rename", "200"),
     UiBatch(<<F_P>>, M_SEPARATE, <<" ">>, "Skip", "200"),
     UiBatch(<<F_D>>, M_PDF_JPG, <<"{name}", "_", "{page}">>, "Skip", "72"),
     UiBatch(<<F_P, F_A>>, M_MERGED, <<>>, "Skip", "200"),
     UiBatch(<<F_Q>>, M_MERGED, <<"_", "{page}", ".">>, "Overwrite", "200"),
     UiBatch(<<F_Q>>, M_MERGED, <<LONGRUN>>, "Skip", "200"),
     UiBatch(<<F_Q, F_P>>, M_MERGED, <<"{mode}">>, "Auto-rename", "200")}

\* outputs of an earlier session that may already be in the output directory
STALE == [kind |-> "stale", pages |-> 0]
PRIOR ==
    (File(DIR_OUT, <<"a", ".", "p", "n", "g">>) :> STALE) @@
    (File(DIR_OUT, <<"p", "_", "p", "d", "f", ".", "p", "d", "f">>) :> STALE) @@
    (File(DIR_OUT, <<"d", "_", "1", ".", "j", "p", "g">>) :> STALE) @@
    (F_OLD :> STALE)

MaxStarts == 2

UiInit ==
    /\ window = NO_WINDOW
    /\ fs \in {SOURCES, PRIOR @@ SOURCES}
    /\ jobs = <<>>
    /\ cancel = FALSE
    /\ pc = "idle"
    /\ idx = 0
    /\ ok = 0
    /\ failed = 0
    /\ frame = NoFrame
    /\ events = <<>>
    /\ calls = <<>>

\* a Start that is never turned away
StartNeverIgnored == FALSE

\* line 337
StartIgnored == window._worker

\* _on_start, lines 336-376
OnStart ==
    \E rows \in UiBatches, output_dir \in OutputDirs :
       IF StartIgnored
       THEN /\ window' = [window EXCEPT !.last = "busy"]
            /\ UNCHANGED <<jobs, cancel, fs, pc, idx, ok, failed, frame, events, calls>>
       ELSE IF ensure_writable_dir(fs, output_dir)
       THEN /\ window' = [window EXCEPT !.last = "output_error", !.output_dir = output_dir]
            /\ UNCHANGED <<jobs, cancel, fs, pc, idx, ok, failed, frame, events, calls>>
       ELSE IF rows = <<>>
       THEN /\ window' = [window EXCEPT !.last = "nothing_to_do", !.output_dir = output_dir]
            /\ UNCHANGED <<jobs, cancel, fs, pc, idx, ok, failed, frame, events, calls>>
       ELSE /\ window.starts < MaxStarts
            /\ window' = [_worker |-> TRUE, running |-> TRUE, output_dir |-> output_dir,
                          starts |-> window.starts + 1, last |-> "started"]
            /\ jobs' = rows
            /\ cancel' = FALSE
            /\ pc' = "ready"
            /\ idx' = 0
            /\ ok' = 0
            /\ failed' = 0
            /\ frame' = NoFrame
            /\ events' = <<>>
            /\ calls' = <<>>
            /\ UNCHANGED fs

\* _on_cancel, lines 378-380
OnCancel ==
    /\ cancel' = (cancel \/ window._worker)
    /\ window' = [window EXCEPT !.last = "cancel"]
    /\ UNCHANGED <<jobs, fs, pc, idx, ok, failed, frame, events, calls>>

\* _on_finished, lines 417-421: the slot of the worker's `finished` signal
\* re-enables Start and opens the dialog "Done", which runs an event loop
\* of its own until it is closed
OnFinished ==
    /\ pc = "done"
    /\ window._worker
    /\ window.running
    /\ window' = [window EXCEPT !.running = FALSE, !.last = "finished"]
    /\ UNCHANGED <<jobs, cancel, fs, pc, idx, ok, failed, frame, events, calls>>

\* _on_finished, line 422: the dialog was closed, the worker is let go
OnFinishedReturn ==
    /\ pc = "done"
    /\ window._worker
    /\ ~window.running
    /\ window' = [window EXCEPT !._worker = FALSE, !.last = "cleared"]
    /\ UNCHANGED <<jobs, cancel, fs, pc, idx, ok, failed, frame, events, calls>>

UiNext == OnStart \/ OnCancel \/ OnFinished \/ OnFinishedReturn \/ WorkerNext

UiSpec == UiInit /\ [][UiNext]_vars

\* ------------------------------------------------------------- claims

\* the positions of the signals of one kind in the emission order
Sigs(s) == {k \in 1..Len(events) : events[k].sig = s}
DoneFor(row) == {k \in Sigs("itemDone") : events[k].row = row}
ErrorFor(row) == {k \in Sigs("error") : events[k].row = row}
\* run() has been left: it returned ("done") or an exception escaped it ("crashed")
RunEnded == pc \in {"done", "crashed"}
PerItem == ~TakesMergedBranch

\* C1: in every run the summary `finished` is emitted exactly once, and no
\* other signal is emitted after it.
C1_FinishedExactlyOnce ==
    /\ Cardinality(Sigs("finished")) <= 1
    /\ \A k \in Sigs("finished") : k = Len(events)
    /\ RunEnded => Cardinality(Sigs("finished")) = 1

\* C2: in per-item mode, once the cancel flag is set when the worker is at
\* the pre-job check of job idx, no signal of a job at or after idx exists,
\* the worker's next step only appends the summary with total = the number
\* of queued jobs, and afterwards signals and files stay as they are.
C2_CancelBeforeJob ==
    [][ /\ (PerItem /\ pc = "loop" /\ cancel) =>
              /\ \A k \in 1..Len(events) : events[k].sig # "finished" /\ events[k].at < idx
              /\ Len(events') = Len(events) + 1
              /\ SubSeq(events', 1, Len(events)) = events
              /\ events'[Len(events')].sig = "finished"
              /\ events'[Len(events')].total = Len(jobs)
              /\ fs' = fs
              /\ pc' = "done"
        /\ (PerItem /\ pc = "done") => (events' = events /\ fs' = fs /\ pc' = "done")
      ]_vars

\* a three-job per-item run cancelled while its first job was converted
C2_Witness ==
    /\ PerItem /\ pc = "done" /\ cancel
    /\ Len(jobs) = 3 /\ idx = 2
    /\ DoneFor(0) # {}
    /\ events[Len(events)].sig = "finished" /\ events[Len(events)].total = 3

\* C3: in every summary, total is the number of queued jobs, ok the number
\* of itemDone signals with a successful result, failed the number of
\* itemDone signals with a failed result plus the number of error signals;
\* ok + failed <= total, with equality in a per-item run never cancelled.
C3_SummaryCounts ==
    \A k \in Sigs("finished") :
        LET s == events[k]
            succeeded == {j \in Sigs("itemDone") : events[j].res.success}
            unsuccessful == {j \in Sigs("itemDone") : ~events[j].res.success}
        IN  /\ s.total = Len(jobs)
            /\ s.ok = Cardinality(succeeded)
            /\ s.failed = Cardinality(unsuccessful) + Cardinality(Sigs("error"))
            /\ s.ok + s.failed <= s.total
            /\ (PerItem /\ ~cancel) => s.ok + s.failed = s.total

\* one good and one corrupt HEIC file: ok = 1, failed = 1, total = 2
C3_Witness ==
    /\ pc = "done" /\ jobs = <<J_HEIC, J_HEIC_BAD>>
    /\ events[Len(events)] = EvFinished(2, 1, 1)
    /\ \E k \in DoneFor(1) : ~events[k].res.success /\ events[k].res.errors # <<>>

\* C4: cancellation prevents new work from starting in every mode: with the
\* flag set when run() is entered or at a pre-job check, the step taken
\* invokes no conversion function; and a conversion of a whole file that is
\* in flight when the flag is set still returns and is reported.
C4_CancelPreventsNewWork ==
    [][ /\ (cancel /\ pc \in {"ready", "loop"}) => (calls' = calls /\ pc' \notin {"call", "merge"})
        /\ (cancel /\ pc' # pc /\ (pc = "merge" \/ (pc = "call" /\ Route(jobs[idx]) # "pdf_to_images")))
              => (pc' \in {"loop", "done"} /\ Sigs("itemDone")' # Sigs("itemDone"))
      ]_vars

\* whether convert_job raises for a job: only float(job.dpi) of
\* _pdf_to_images is outside every handler of the conversion functions
ConvertJobRaises(job) ==
    Route(job) = "pdf_to_images" /\ ReadablePdf(fs, job.input_path) /\ FloatRaises(job.dpi)

\* C5: in per-item mode, a job for which convert_job raised has exactly one
\* error signal and no itemDone signal, the error is followed at once by the
\* progressTotal of that job, failed counts it once, and the next job is
\* started unless the run was cancelled.
C5_DefectIsolated ==
    PerItem =>
      /\ failed = Cardinality({j \in Sigs("itemDone") : ~events[j].res.success})
                  + Cardinality(Sigs("error"))
      /\ \A i \in 1..Len(jobs) :
            (i < idx /\ ConvertJobRaises(jobs[i])) =>
               /\ Cardinality(ErrorFor(i - 1)) = 1
               /\ DoneFor(i - 1) = {}
               /\ \A k \in ErrorFor(i - 1) :
                     /\ k < Len(events)
                     /\ events[k + 1].sig = "progressTotal"
                     /\ events[k + 1].at = i
               /\ (i < Len(jobs) /\ pc = "done" /\ ~cancel) =>
                     \E k \in Sigs("status") : events[k].at = i + 1

\* a job that raised, followed by a job that converted
C5_Witness ==
    /\ pc = "done" /\ jobs = <<J_PDF_DPI, J_HEIC>>
    /\ ErrorFor(0) # {}
    /\ \E k \in DoneFor(1) : events[k].res.success
    /\ events[Len(events)] = EvFinished(2, 1, 1)

\* C6: nothing raised while a run executes terminates the run: whenever
\* run() has been left, by returning or by an exception that escaped it, the
\* summary has been emitted.
C6_RunReachesSummary == RunEnded => Sigs("finished") # {}

\* C7: when some job has the merged mode and some job has an image input,
\* convert_job is never invoked and convert_images_to_single_pdf is invoked
\* exactly once (not at all only under Skip with an existing target), with
\* the image inputs in queue order and the naming pattern, collision policy,
\* page size, fit mode and margins of the first image job.
C7_OneMergeCall ==
    TakesMergedBranch =>
      LET first == image_jobs[1]
      IN  /\ Len(calls) <= 1
          /\ \A k \in 1..Len(calls) :
                /\ calls[k].fn = "convert_images_to_single_pdf"
                /\ calls[k].input_images = [n \in 1..Len(ImageRows) |-> jobs[ImageRows[n]].input_path]
                /\ calls[k].page_size = first.page_size
                /\ calls[k].fit_mode = first.fit_mode
                /\ calls[k].margins_mm = first.margins_mm
                /\ pc = "merge" => calls[k].output_path = MergedPath(fs, first).val
          /\ (RunEnded /\ calls = <<>>) =>
                /\ first.overwrite_policy = "Skip"
                /\ ~MergedPath(fs, first).raised
                /\ MergedPath(fs, first).val \in DOMAIN fs

\* C8: in merged mode itemDone is emitted exactly once for each image job
\* and for no other job, in increasing queue index, after the merge call has
\* returned, all with the same result; the summary has ok = the number of
\* image jobs if the result succeeded, otherwise failed = that number.
C8_MergedCompletion ==
    TakesMergedBranch =>
      /\ \A k \in Sigs("itemDone") :
            /\ is_image_file(jobs[events[k].row + 1].input_path)
            /\ pc = "done"
      /\ \A j, k \in Sigs("itemDone") :
            /\ events[j].res = events[k].res
            /\ j < k => events[j].row < events[k].row
      /\ RunEnded =>
            /\ \A i \in 1..Len(jobs) :
                  Cardinality(DoneFor(i - 1)) = IF is_image_file(jobs[i].input_path) THEN 1 ELSE 0
            /\ \E k \in Sigs("finished") : \A j \in Sigs("itemDone") :
                  /\ events[k].ok = IF events[j].res.success THEN Len(image_jobs) ELSE 0
                  /\ events[k].failed = IF events[j].res.success THEN 0 ELSE Len(image_jobs)

\* what C9 says of the jobs whose input is no image
NonImageUntouched ==
    /\ \A i \in 1..Len(jobs) :
          ~is_image_file(jobs[i].input_path) =>
             /\ DoneFor(i - 1) = {}
             /\ ErrorFor(i - 1) = {}
             /\ \A k \in 1..Len(calls) : calls[k].fn # "convert_job"
    /\ \A k \in Sigs("finished") :
          /\ events[k].total = Len(jobs)
          /\ events[k].ok + events[k].failed = Len(image_jobs)

\* C9: in any batch in which some job requests the merged mode, a
\* job whose input is no image gets no conversion, no itemDone and no error
\* signal, and is counted in total only.
C9_NonImageUntouched == merged_mode => NonImageUntouched

\* the place of a signal within the signals of its job
Rank(e) ==
    CASE e.sig = "status" -> 1
      [] e.sig = "progressItem" -> 2
      [] e.sig \in {"itemDone", "error"} -> 3
      [] e.sig = "progressTotal" -> 4
      [] OTHER -> 5

\* C10: in per-item mode the signals come job by job in queue order: for
\* each started job its status first, then its progressItem signals, then
\* exactly one of itemDone and error, then one progressTotal; no signal of a
\* later job precedes that progressTotal.
C10_PerItemOrder ==
    PerItem =>
      /\ \A j, k \in 1..Len(events) :
            (j < k) =>
               /\ Rank(events[j]) <= Rank(events[k]) \/ (Rank(events[k]) < 5 /\ events[j].at < events[k].at)
               /\ (Rank(events[j]) < 5 /\ Rank(events[k]) < 5) => events[j].at <= events[k].at
      /\ \A k \in 1..Len(events) :
            (Rank(events[k]) \in {2, 3}) => events[k].row = events[k].at - 1
      /\ \A i \in 1..Len(jobs) :
            LET mine == {k \in 1..Len(events) : Rank(events[k]) < 5 /\ events[k].at = i}
                n(r) == Cardinality({k \in mine : Rank(events[k]) = r})
                started == i < idx \/ (i = idx /\ pc \in {"call", "pages"})
            IN  /\ n(1) = IF started THEN 1 ELSE 0
                /\ n(3) = IF i < idx THEN 1 ELSE 0
                /\ n(4) = IF i < idx THEN 1 ELSE 0
                /\ ~started => mine = {}

\* a PDF job with two page progress signals, then a second job
C10_Witness ==
    /\ PerItem /\ pc = "done" /\ jobs = <<J_PDF, J_HEIC>>
    /\ Cardinality({k \in Sigs("progressItem") : events[k].row = 0}) = 2
    /\ DoneFor(0) # {} /\ DoneFor(1) # {}

\* fractions <<n, d>> with d > 0
FracLeq(p, q) == p[1] * q[2] <= q[1] * p[2]
InUnit(p) == p[2] > 0 /\ 0 <= p[1] /\ p[1] <= p[2]

\* the values v, in the order given, never decrease
InOrder(v) == \A j, k \in 1..Len(v) : j < k => FracLeq(v[j], v[k])

\* the values convert_job passed to its callback in the call of this step
\* lie in [0, 1] and never decrease
ConvertJobPassesInOrder ==
    (frame.fn = "convert_job" /\ calls' # calls) =>
        /\ \A k \in 1..Len(events') - Len(events) : InUnit(events'[Len(events) + k])
        /\ InOrder(SubSeq(events', Len(events) + 1, Len(events')))

\* the values passed so far to the worker's on_progress, and the values of
\* the progressItem signals it emitted
PassedValues == SubSeq(frame.values, 1, Len(events'))
EmittedValues == [k \in 1..Len(events') |-> events'[k].p]

\* every signal of the callback is a progressItem of its row with a value
\* in [0, 1]
EmittedInUnit ==
    \A k \in 1..Len(events') :
       /\ events'[k].sig = "progressItem"
       /\ events'[k].row = idx - 1
       /\ InUnit(EmittedValues[k])

\* C11: for each job index, the progressItem values emitted lie in [0, 1]
\* and are non-decreasing in emission order, whatever values the conversion
\* function passes to its progress callback.
C11_ItemProgressMonotone ==
    [][ /\ ConvertJobPassesInOrder
        /\ (frame.fn = "on_progress" /\ events' # events) =>
              (EmittedInUnit /\ InOrder(EmittedValues))
      ]_vars

\* C11, amended: every progressItem value lies in [0, 1] whatever values
\* are passed: the callback emits each value passed, clamped to [0, 1], in
\* the order passed.  The emitted values never decrease when the values
\* passed never decrease, as those that convert_job passes within one call.
C11_ItemProgressClamped ==
    [][ /\ ConvertJobPassesInOrder
        /\ (frame.fn = "on_progress" /\ events' # events) =>
              /\ EmittedInUnit
              /\ \A k \in 1..Len(events') :
                    /\ InUnit(PassedValues[k]) => EmittedValues[k] = PassedValues[k]
                    /\ PassedValues[k][1] < 0 => EmittedValues[k] = <<0, 1>>
                    /\ PassedValues[k][1] > PassedValues[k][2] => EmittedValues[k] = ONE
              /\ InOrder(PassedValues) => InOrder(EmittedValues)
      ]_vars

\* the callback of row 0 was passed 3/2 and then -1/2, and emitted 1 and
\* then 0
C11_Witness ==
    /\ frame.fn = "on_progress"
    /\ frame.values = <<<<3, 2>>, <<0 - 1, 2>>>>
    /\ Len(events) = 2
    /\ events[1] = EvProgressItem(1, 0, ONE)
    /\ events[2] = EvProgressItem(1, 0, <<0, 1>>)

\* C12: the progressTotal values of a run lie in [0, 1] and never
\* decrease; in per-item mode each finished job (itemDone or error) is
\* followed at once by one progressTotal whose value is the number of jobs
\* finished so far over the number of jobs, and there is no other; at the
\* end of a run that emitted any, the last value is 1 exactly when no job
\* was skipped by cancellation.
C12_TotalProgress ==
    LET totals == Sigs("progressTotal")
        ends == Sigs("itemDone") \cup Sigs("error")
    IN  /\ \A k \in totals : InUnit(events[k].p)
        /\ \A j, k \in totals : j < k => FracLeq(events[j].p, events[k].p)
        /\ PerItem =>
              /\ \A k \in ends :
                    /\ k < Len(events)
                    /\ events[k + 1].sig = "progressTotal"
                    /\ events[k + 1].p[2] = Len(jobs)
                    /\ events[k + 1].p[1] = Cardinality({j \in ends : j <= k})
              /\ \A k \in totals : k > 1 /\ (k - 1) \in ends
        /\ (pc = "done" /\ totals # {}) =>
              LET last == events[Max(totals)].p
                  skipped == PerItem /\ Cardinality(ends) < Len(jobs)
              IN  (last[1] = last[2]) <=> ~skipped

\* a per-item run cancelled after the first of two jobs: last value 1/2
C12_WitnessCancelled ==
    /\ pc = "done" /\ PerItem /\ cancel /\ Len(jobs) = 2
    /\ Cardinality(Sigs("progressTotal")) = 1
    /\ \E k \in Sigs("progressTotal") : events[k].p = <<1, 2>>

\* C13: every ConversionResult handed to itemDone (returned by convert_job
\* or by convert_images_to_single_pdf, or built by the worker on the skip
\* path) has success = true exactly when its errors list is empty, and
\* every failure is reported by such a result, never raised: no call of
\* convert_job ends in the worker's except clause, whose mark is the
\* error signal.
C13_FailuresReportedNotRaised ==
    /\ \A k \in Sigs("itemDone") : events[k].res.success <=> (events[k].res.errors = <<>>)
    /\ Sigs("error") = {}

\* job i of a per-item run went through the page loop of _pdf_to_images
\* and has returned
PdfJobRan(i) ==
    /\ i < idx
    /\ Route(jobs[i]) = "pdf_to_images"
    /\ ~FloatRaises(jobs[i].dpi)
    /\ ReadablePdf(fs, jobs[i].input_path)
    /\ PerItem

\* the result job i was reported with
ResOf(i) == events[CHOOSE k \in DoneFor(i - 1) : TRUE].res

\* the position of page n in a page list
PosIn(list, n) == CHOOSE k \in 1..Len(list) : list[k] = n

\* C15: in a PDF job that is not cancelled every page of the selected list
\* is attempted, in list order, also after a page failed: there is one
\* progress value per page, each page gave either one 'Page n: ...' error
\* or one output, the errors follow the list order, success is true exactly
\* when no page failed, and pages is the number of outputs.
C15_EveryPageAttempted ==
    \A i \in 1..Len(jobs) :
        (PdfJobRan(i) /\ ~cancel) =>
            LET res == ResOf(i)
                list == pages_list_of(fs, jobs[i])
                n == Len(list)
                mine == SelectSeq(events, LAMBDA e : e.sig = "progressItem" /\ e.row = i - 1)
            IN  /\ [k \in 1..Len(mine) |-> mine[k].p] = [k \in 1..n |-> <<k, n>>]
                /\ Len(res.outputs) + Len(res.errors) = n
                /\ \A k \in 1..Len(res.errors) :
                      /\ res.errors[k].page # 0
                      /\ \E q \in 1..n : list[q] = res.errors[k].page
                /\ \A j, k \in 1..Len(res.errors) :
                      j < k => PosIn(list, res.errors[j].page) < PosIn(list, res.errors[k].page)
                /\ res.success <=> (res.errors = <<>>)
                /\ res.pages = Len(res.outputs)

\* page 2 of 3 failed, page 3 was written all the same
C15_Witness ==
    /\ pc = "done" /\ ~cancel /\ jobs = <<J_PDF_BLOCK>>
    /\ \E k \in DoneFor(0) :
          LET res == events[k].res
          IN  /\ [j \in 1..Len(res.errors) |-> res.errors[j].page] = <<2>>
              /\ Len(res.outputs) = 2
              /\ res.outputs[2].name = <<"e", "_", "3", ".", "p", "n", "g">>
              /\ res.outputs[2] \in DOMAIN fs

\* C16: inside a PDF job the cancel flag is looked at before each page:
\* while it is clear the next step handles the page at the current
\* position, and once it is set before the page at position pos, the next
\* step writes nothing and returns the outputs and errors of the pages
\* before pos, all of whose outputs are still on disk.
C16_CancelBetweenPages ==
    [][ (pc = "pages") =>
          /\ Len(frame.outputs) + Len(frame.errors) = frame.pos - 1
          /\ (~cancel /\ events' # events) =>
                /\ Len(events') > Len(events)
                /\ events'[Len(events) + 1].sig = "progressItem"
                /\ events'[Len(events) + 1].p = <<frame.pos, Len(frame.pages_list)>>
          /\ (cancel /\ pc' # pc) =>
                /\ fs' = fs
                /\ Len(events') = Len(events) + 2
                /\ events'[Len(events) + 1].sig = "itemDone"
                /\ events'[Len(events) + 1].res.outputs = frame.outputs
                /\ events'[Len(events) + 1].res.errors = frame.errors
                /\ \A k \in 1..Len(frame.outputs) : PathExists(fs', frame.outputs[k]).val
          /\ cancel => pc' # pc \/ UNCHANGED vars
      ]_vars

\* cancelled after page 1 of 3: one output returned and on disk, no other
C16_Witness ==
    /\ pc = "done" /\ cancel /\ jobs = <<J_PDF_BLOCK>>
    /\ \E k \in DoneFor(0) :
          /\ Len(events[k].res.outputs) = 1
          /\ events[k].res.errors = <<>>
          /\ {q \in DOMAIN fs : q.dir = DIR_OUT /\ q # F_OLD} = {events[k].res.outputs[1]}

\* C17: a PDF job with an empty page range and {page} in its pattern, not
\* cancelled and without a failed page, returns success with exactly one
\* output per page of the document, in page order, pairwise distinct, each
\* a file on disk.
C17_OneFilePerPage ==
    \A i \in 1..Len(jobs) :
        (/\ PdfJobRan(i) /\ ~cancel
         /\ jobs[i].page_range = <<>>
         /\ \E c \in 1..Len(jobs[i].naming_pattern) : jobs[i].naming_pattern[c] = "{page}"
         /\ ResOf(i).errors = <<>>) =>
            LET res == ResOf(i)
                N == fs[jobs[i].input_path].pages
            IN  /\ res.success
                /\ Len(res.outputs) = N
                /\ \A j, k \in 1..N : j # k => res.outputs[j] # res.outputs[k]
                /\ \A k \in 1..N :
                      /\ res.outputs[k] \in DOMAIN fs
                      /\ \E c \in 1..Len(res.outputs[k].name) :
                            <<res.outputs[k].name[c]>> = Digits(k)

\* the two pages of d.pdf written as d_1.png and d_2.png
C17_Witness ==
    /\ pc = "done" /\ ~cancel /\ jobs = <<J_PDF>>
    /\ \E k \in DoneFor(0) :
          /\ events[k].res.success
          /\ Len(events[k].res.outputs) = 2
          /\ \A j \in 1..2 : events[k].res.outputs[j] \in DOMAIN fs

\* a comma-separated part that is neither empty nor a number nor a range of
\* two numbers
MalformedPart(raw) ==
    LET part == Strip(raw, WHITESPACE)
        dashes == {c \in 1..Len(part) : part[c] = "-"}
    IN  /\ part # <<>>
        /\ IF dashes = {} THEN IntOf(part).raised
           ELSE \/ IntOf(SubSeq(part, 1, Min(dashes) - 1)).raised
                \/ IntOf(SubSeq(part, Min(dashes) + 1, Len(part))).raised

\* a page-range string with a malformed part
Malformed(page_range) ==
    LET parts == SplitOn(page_range, ",", <<>>)
    IN  page_range # <<>> /\ \E k \in 1..Len(parts) : MalformedPart(parts[k])

\* C19: a PDF job whose page-range string is malformed is reported with a
\* result that has success = false and a non-empty errors list, and is
\* counted as failed.
C19_MalformedRangeFails ==
    \A i \in 1..Len(jobs) :
        (PdfJobRan(i) /\ Malformed(jobs[i].page_range)) =>
            /\ ~ResOf(i).success
            /\ ResOf(i).errors # <<>>
            /\ failed >= 1

\* C20: when convert_images_to_single_pdf fails, the file system is as it
\* was before the call, and the result has no outputs and at least one
\* error.
C20_MergeAtomic ==
    [][ (pc = "merge") =>
          \A k \in (Len(events) + 1)..Len(events') :
              (events'[k].sig = "itemDone" /\ ~events'[k].res.success) =>
                  /\ fs' = fs
                  /\ events'[k].res.outputs = <<>>
                  /\ events'[k].res.errors # <<>>
      ]_vars

\* the call made under FnSpec, once it has returned
Returned(fn) == pc = "returned" /\ calls[1].call.fn = fn

\* C14: a single-file job (HEIC to JPG/PNG, or image to a PDF of its own)
\* whose result has success = false has an empty outputs list, whichever
\* step raised, the progress callback included.
C14_FailsWholesale ==
    (/\ Returned("convert_job")
     /\ Route(calls[1].call.job) \in {"to_jpg_png", "images_to_pdf_separate"}
     /\ ~calls[1].ret.success) =>
        calls[1].ret.outputs = <<>>

\* the elements of a sequence
Elems(seq) == {seq[k] : k \in 1..Len(seq)}

\* the string "a-b" for two digits
DashRange(a, b) == Digits(a) \o <<"-">> \o Digits(b)

\* C18: for every page-range string and every max_pages >= 1,
\* parse_page_range returns a list without duplicates whose elements lie in
\* 1..max_pages; an empty string gives 1..max_pages, a reversed range "b-a"
\* gives the pages of "a-b", and "1-3,5,2" with max_pages = 5 gives 1,2,3,5.
C18_PageRangeWithinBounds ==
    Returned("parse_page_range") =>
        LET ret == calls[1].ret
            m == calls[1].call.max_pages
        IN  /\ \A j, k \in 1..Len(ret) : j # k => ret[j] # ret[k]
            /\ \A k \in 1..Len(ret) : 1 <= ret[k] /\ ret[k] <= m
            /\ calls[1].call.page_range = <<>> => ret = [k \in 1..m |-> k]
            /\ \A a, b \in 1..m :
                  Elems(parse_page_range(DashRange(b, a), m)) =
                  Elems(parse_page_range(DashRange(a, b), m))
            /\ parse_page_range(<<"1", "-", "3", ",", "5", ",", "2">>, 5) = <<1, 2, 3, 5>>

\* ---- collisions

\* <stem>_k<ext> beside path
Renamed(path, k) ==
    [dir |-> path.dir, name |-> PathStem(path) \o <<"_">> \o Digits(k) \o PathSuffix(path)]

\* the path is a file of the file system or an existing directory
Present(path) == path \in DOMAIN fs \/ AsDir(path) \in DIRS

\* the largest k a resolution can reach in CollisionFileSystems
MaxRename == 3

\* C22: under Auto-rename, _resolve_collision returns the input path when
\* it does not exist, and otherwise <stem>_k<ext> for the least k >= 1 such
\* that this path does not exist; the returned path never exists at the
\* time of return, and with out.png and out_1.png present the answer for
\* out.png is out_2.png.
C22_AutoRenameLeastFree ==
    (/\ Returned("resolve_collision")
     /\ calls[1].call.policy = "Auto-rename"
     /\ ~calls[1].ret.raised) =>
        LET path == calls[1].call.path
            ret == calls[1].ret.val
        IN  /\ ~Present(path) => ret = path
            /\ Present(path) =>
                  \E k \in 1..MaxRename :
                     /\ ret = Renamed(path, k)
                     /\ \A j \in 1..(k - 1) : Present(Renamed(path, j))
            /\ ~Present(ret)
            /\ (path = F_OUT /\ F_OUT \in DOMAIN fs /\ F_OUT_1 \in DOMAIN fs
                  /\ F_OUT_2 \notin DOMAIN fs) => ret = F_OUT_2

\* out.png, out_1.png and out_2.png are all there and out.png was resolved
\* under Auto-rename to out_3.png
C22_Witness ==
    /\ Returned("resolve_collision")
    /\ calls[1].call.policy = "Auto-rename"
    /\ calls[1].call.path = F_OUT
    /\ {F_OUT, F_OUT_1, F_OUT_2} \subseteq DOMAIN fs
    /\ calls[1].ret.val = Renamed(F_OUT, 3)

\* C23: _resolve_collision returns its input path unchanged under Overwrite
\* and under Skip, whether or not the path exists; so the same job run twice
\* under Overwrite resolves to the same output paths both times.
C23_OverwriteAndSkipKeepPath ==
    /\ (/\ Returned("resolve_collision")
        /\ calls[1].call.policy \in {"Overwrite", "Skip"}
        /\ ~calls[1].ret.raised) =>
           calls[1].ret.val = calls[1].call.path
    /\ (/\ Returned("convert_job")
        /\ Len(calls) = 2
        /\ calls[1].call.job.overwrite_policy = "Overwrite"
        /\ ~calls[1].raised /\ ~calls[2].raised) =>
           calls[2].ret.outputs = calls[1].ret.outputs

\* out.png exists and was resolved under Skip
C23_WitnessSkip ==
    /\ Returned("resolve_collision")
    /\ calls[1].call.policy = "Skip"
    /\ calls[1].call.path = F_OUT
    /\ F_OUT \in DOMAIN fs
    /\ calls[1].ret.val = F_OUT

\* ---- settings

\* the value of field k in the persisted record is present and of the
\* field's type
WellFormed(data, k) ==
    /\ data.t = "obj"
    /\ k \in DOMAIN data.v
    /\ CASE k = "quality" -> data.v[k].t = "num"
         [] k = "overwrite_policy" -> data.v[k].t = "str"
         [] k = "window_geometry" -> data.v[k].t = "str" /\ data.v[k].v \in HEX_STRINGS

\* C27: SettingsManager.load never fails, whatever the settings file
\* contains (unreadable, invalid JSON, JSON that is not an object, unknown
\* or missing keys): it does not raise, every field absent or malformed in
\* the record takes its built-in default, and the well-formed known fields
\* keep their persisted values.
C27_LoadNeverFails ==
    Returned("load") =>
        LET file == calls[1].call.file
            ret == calls[1].ret
        IN  /\ ~ret.raised
            /\ \A k \in FIELDS :
                  IF file.state = "json" /\ WellFormed(file.data, k)
                  THEN ret.settings[k] = IF k = "window_geometry" THEN Bytes(file.data.v[k].v)
                                         ELSE file.data.v[k]
                  ELSE ret.settings[k] = AppSettings[k]

\* ---- convert_job and convert_images_to_single_pdf called directly

\* C28: a HEIC/HEIF job under HEIC -> JPG (resp. PNG) whose source decodes
\* returns success = true with exactly one output path, in the job's
\* output_dir, with suffix .jpg (resp. .png), with pages = 1, and that file
\* exists after the call.
C28_HeicJobSucceeds ==
    (/\ Returned("convert_job")
     /\ is_heic_file(calls[1].call.job.input_path)
     /\ calls[1].call.job.mode \in {M_HEIC_JPG, M_HEIC_PNG}
     /\ ReadableImage(fs, calls[1].call.job.input_path)) =>
        LET job == calls[1].call.job
            ret == calls[1].ret
        IN  /\ ~calls[1].raised
            /\ ret.success
            /\ Len(ret.outputs) = 1
            /\ ret.outputs[1].dir = job.output_dir
            /\ PathSuffix(ret.outputs[1]) =
                  (IF job.mode = M_HEIC_JPG THEN <<".", "j", "p", "g">> ELSE <<".", "p", "n", "g">>)
            /\ ret.pages = 1
            /\ ret.outputs[1] \in DOMAIN fs

\* the step in which convert_images_to_single_pdf is called and returns
MergeCalled == pc = "fn" /\ frame.fn = "convert_images_to_single_pdf" /\ pc' = "returned"

\* what C29 promises of that step
MergeDelivers ==
    LET input_images == frame.input_images
        output_path == frame.output_path
        ret == calls'[1].ret
    IN  /\ ret.success
        /\ ret.outputs = <<output_path>>
        /\ DOMAIN fs' = DOMAIN fs \cup {output_path}
        /\ \A q \in DOMAIN fs \ {output_path} : fs'[q] = fs[q]
        /\ fs'[output_path].kind = "pdf"
        /\ fs'[output_path].pages = Len(input_images)
        /\ events' = <<[sig |-> "img2pdf.convert", images |-> input_images]>>

AllReadable == \A k \in 1..Len(frame.input_images) : ReadableImage(fs, frame.input_images[k])

\* C29: convert_images_to_single_pdf on an ordered list of
\* readable images returns success = true with outputs = [output_path];
\* exactly one file is written, it exists after the call, and it holds one
\* page per input image, in input order.
C29_MergeSucceeds == [][(MergeCalled /\ AllReadable) => MergeDelivers]_vars

\* the claim's three pairs of input class and mode
SupportedPair(job) ==
    LET ext == Lower(PathSuffix(job.input_path))
    IN  \/ /\ ext \in {<<".", "h", "e", "i", "c">>, <<".", "h", "e", "i", "f">>}
           /\ job.mode \in {M_HEIC_JPG, M_HEIC_PNG}
        \/ /\ ext \in {<<".", "j", "p", "g">>, <<".", "j", "p", "e", "g">>, <<".", "p", "n", "g">>}
           /\ job.mode = M_SEPARATE
        \/ /\ ext = <<".", "p", "d", "f">>
           /\ job.mode \in {M_PDF_JPG, M_PDF_PNG}

\* C30: convert_job performs a conversion exactly when the pair (input
\* class by extension, mode) is (heic/heif, HEIC -> JPG or PNG),
\* (jpg/jpeg/png, separate PDF) or (pdf, PDF -> JPG or PNG); for every other
\* pair, any input under the merged mode and a JPG/PNG input under a HEIC
\* mode included, it returns success = false with the single error
\* "Unsupported input/mode combination", no outputs, and writes no file.
C30_DispatchByPair ==
    [][(frame.fn = "convert_job" /\ Len(calls') = Len(calls) + 1) =>
          LET c == calls'[Len(calls')]
          IN  IF SupportedPair(frame.job)
              THEN c.raised \/ Err("Unsupported input/mode combination") \notin Elems(c.ret.errors)
              ELSE /\ ~c.raised
                   /\ ~c.ret.success
                   /\ c.ret.errors = <<Err("Unsupported input/mode combination")>>
                   /\ c.ret.outputs = <<>>
                   /\ fs' = fs
      ]_vars

\* a JPG under HEIC -> JPG and an image under the merged mode were refused,
\* and a PNG under the separate-PDF mode was converted
C30_Witness ==
    /\ Returned("convert_job")
    /\ \/ calls[1].call.job.input_path = F_P /\ calls[1].call.job.mode = M_HEIC_JPG
       \/ calls[1].call.job.input_path = F_Q /\ calls[1].call.job.mode = M_MERGED
    /\ calls[1].ret = UNSUPPORTED

\* ---- the window

\* the signals the step emits
NewEvents == SubSeq(events', Len(events) + 1, Len(events'))

\* the path a HEIC or separate-PDF job builds before resolving collisions
WholeTarget(job) ==
    IF Route(job) = "to_jpg_png"
    THEN LET t == IF EndsWithJPG(job.mode) THEN <<"J", "P", "G">> ELSE <<"P", "N", "G">>
         IN  build_output_path(job.output_dir,
                               ExpandStem(job, PathStem(job.input_path) \o <<"_">> \o t, <<>>),
                               <<".">> \o Lower(t))
    ELSE build_output_path(job.output_dir,
                           ExpandStem(job, PathStem(job.input_path) \o <<"_", "p", "d", "f">>, <<>>),
                           <<".", "p", "d", "f">>)

\* the path a PDF job builds for page page_no
PageTarget(job, page_no) ==
    build_output_path(job.output_dir,
                      ExpandStem(job, PathStem(job.input_path) \o <<"_", "p", "a", "g", "e", "-">>
                                      \o IntStr(page_no), IntStr(page_no)),
                      IF EndsWithJPG(job.mode) THEN <<".", "j", "p", "g">> ELSE <<".", "p", "n", "g">>)

\* the path the merged branch builds from the first image job
MergedTarget(first) ==
    PathJoin(first.output_dir,
             ExpandStem(first, PathStem(first.input_path) \o <<"_", "m", "e", "r", "g", "e", "d">>, <<>>)
             \o <<".", "p", "d", "f">>)

\* the step reports row as done, successfully, with exactly these outputs and errors
ReportsDone(row, outputs, errors) ==
    \E k \in 1..Len(NewEvents) :
       /\ NewEvents[k].sig = "itemDone"
       /\ NewEvents[k].row = row
       /\ NewEvents[k].res.success = (errors = <<>>)
       /\ NewEvents[k].res.outputs = outputs
       /\ NewEvents[k].res.errors = errors

\* a HEIC or separate-PDF job under Skip reaches a target that exists
SkipsWhole ==
    /\ pc = "call"
    /\ calls' # calls
    /\ Route(jobs[idx]) \in {"to_jpg_png", "images_to_pdf_separate"}
    /\ jobs[idx].overwrite_policy = "Skip"
    /\ Route(jobs[idx]) = "to_jpg_png" => ReadableImage(fs, jobs[idx].input_path)
    /\ Present(WholeTarget(jobs[idx]))

\* the page loop of a PDF job under Skip reaches a page whose target exists
SkipsPage ==
    /\ pc = "pages"
    /\ frame' # frame
    /\ ~cancel
    /\ jobs[idx].overwrite_policy = "Skip"
    /\ frame.pages_list[frame.pos] <= fs[jobs[idx].input_path].pages
    /\ Present(PageTarget(jobs[idx], frame.pages_list[frame.pos]))

\* the merged branch under Skip finds its target
SkipsMerged ==
    /\ pc = "ready"
    /\ pc' # "ready"
    /\ TakesMergedBranch
    /\ image_jobs[1].overwrite_policy = "Skip"
    /\ Present(MergedTarget(image_jobs[1]))

\* C21: under Skip, when the resolved output path already exists, each
\* conversion (HEIC to image, separate PDF, each page of PDF to image, and
\* the merged PDF of the worker) writes nothing, leaves the file system
\* unchanged and reports success with the existing path among the outputs;
\* so the same job started a second time under Skip succeeds without
\* rewriting the file.
C21_SkipWritesNothing ==
    [][/\ SkipsWhole =>
            /\ fs' = fs
            /\ ReportsDone(idx - 1, <<WholeTarget(jobs[idx])>>, <<>>)
       /\ SkipsPage =>
            LET target == PageTarget(jobs[idx], frame.pages_list[frame.pos])
            IN  /\ fs' = fs
                /\ IF pc' = "pages"
                   THEN /\ frame'.outputs = Append(frame.outputs, target)
                        /\ frame'.errors = frame.errors
                   ELSE ReportsDone(idx - 1, Append(frame.outputs, target), frame.errors)
       /\ SkipsMerged =>
            /\ fs' = fs
            /\ calls' = calls
            /\ pc' = "done"
            /\ \A k \in 1..Len(jobs) :
                  is_image_file(jobs[k].input_path) =>
                     ReportsDone(k - 1, <<MergedTarget(image_jobs[1])>>, <<>>)
      ]_vars

\* names that are an extension and nothing else
BARE_EXTENSIONS == {<<".", "j", "p", "g">>, <<".", "p", "n", "g">>, <<".", "p", "d", "f">>}

\* C24: whenever expanding the naming pattern yields an empty stem (a
\* pattern of tokens that expand to nothing in that mode, such as
\* "{index}", or of characters that are trimmed), the output is named with
\* the mode's default stem; no output file is ever written with an empty
\* stem.
C24_NoEmptyStem ==
    /\ \A q \in DOMAIN fs : q.name \notin BARE_EXTENSIONS
    /\ \A k \in 1..Len(events) :
          events[k].sig = "itemDone" =>
             \A n \in 1..Len(events[k].res.outputs) :
                events[k].res.outputs[n].name \notin BARE_EXTENSIONS

\* a worker thread is between its start and the end of run()
WorkerRunning == pc \in {"ready", "loop", "call", "pages", "merge"}

\* C25: for any interleaving of Start requests, Cancel requests and worker
\* events, at most one ConversionWorker runs at any time: a Start while
\* _worker is non-null creates and starts no worker, and _worker is reset to
\* None only when the worker's `finished` summary is handled, after which a
\* new run can be started.
C25_OneWorkerAtATime ==
    [][/\ window'.starts # window.starts =>
            /\ ~window._worker
            /\ ~WorkerRunning
            /\ window'.starts = window.starts + 1
       /\ (window._worker /\ window' # window
              /\ window'.last \notin {"cancel", "finished", "cleared"}) =>
            /\ window'.last = "busy"
            /\ window'.starts = window.starts
            /\ window'._worker
            /\ UNCHANGED <<jobs, cancel, fs, pc, idx, ok, failed, frame, events, calls>>
       /\ (window._worker /\ ~window'._worker) =>
            /\ pc = "done"
            /\ events # <<>>
            /\ events[Len(events)].sig = "finished"
            /\ ~window.running
            /\ window'.last = "cleared"
       /\ WorkerRunning' => window'._worker
      ]_vars

\* a second worker runs after the first one's summary was handled, and a
\* Start pressed meanwhile was turned away
C25_Witness ==
    /\ window.starts = 2
    /\ window._worker
    /\ window.last = "busy"
    /\ pc = "call"

\* the directory can be created or exists, and a file can be written in it
Writable(directory) == directory \in DIRS \ READ_ONLY

\* C26: if ensure_writable_dir raises for the chosen output directory, the
\* run never begins: _on_start creates no ConversionWorker, no status,
\* progress, completion or summary signal is emitted for that Start, and
\* the window stays not running with _worker = None.
C26_BadOutputDirStartsNothing ==
    [][/\ window'.starts # window.starts => Writable(window'.output_dir)
       /\ (window' # window /\ window'.last \in {"started", "output_error", "nothing_to_do"}
              /\ ~Writable(window'.output_dir)) =>
            /\ window'.last = "output_error"
            /\ window'.starts = window.starts
            /\ ~window'._worker
            /\ ~window'.running
            /\ UNCHANGED <<jobs, cancel, fs, pc, idx, ok, failed, frame, events, calls>>
       /\ (events' # events /\ window' = window) =>
            (window._worker /\ Writable(window.output_dir))
      ]_vars

\* Start was pressed with a file in the way of the output directory, after
\* an earlier run had ended
C26_Witness ==
    /\ window.last = "output_error"
    /\ window.output_dir = DIR_FILE
    /\ window.starts = 1
    /\ ~window._worker
    /\ ~window.running
    /\ pc = "done"

\* ---- where the outputs go

\* the files the step creates or rewrites
Written == {q \in DOMAIN fs' : q \notin DOMAIN fs \/ fs'[q] # fs[q]}

\* C31: every path a run writes, and every path it reports in the outputs
\* of an itemDone result, lies directly in the output_dir of its job, for
\* the paths of the conversion functions and for the merged path of the
\* worker.
C31_OutputsInOutputDir ==
    [][ jobs' = jobs =>
          /\ \A q \in Written : \E i \in 1..Len(jobs) : q.dir = jobs[i].output_dir
          /\ \A k \in 1..Len(NewEvents) :
                NewEvents[k].sig = "itemDone" =>
                   \A n \in 1..Len(NewEvents[k].res.outputs) :
                      NewEvents[k].res.outputs[n].dir = jobs[NewEvents[k].row + 1].output_dir
      ]_vars
\* ---- the pages of a PDF job

\* C32: a PDF job reported with success = true, and so counted ok, has one
\* output for every page of its selected page list, also when cancel was
\* requested while the job was running.
C32_SuccessMeansEveryPage ==
    \A i \in 1..Len(jobs) :
        (PdfJobRan(i) /\ ResOf(i).success) =>
            /\ Len(ResOf(i).outputs) = Len(pages_list_of(fs, jobs[i]))
            /\ ok >= 1
\* C33: a PDF job with a non-empty page-range string rasterises only pages
\* the string names: its outputs, and the files in the output directory
\* after it, are targets of named pages of the document; when the document
\* has none of the named pages there is no output and no file is written.
C33_OnlyNamedPages ==
    (/\ Returned("convert_job")
     /\ Route(calls[1].call.job) = "pdf_to_images"
     /\ calls[1].call.job.page_range # <<>>
     /\ ReadablePdf(fs, calls[1].call.job.input_path)) =>
        LET job == calls[1].call.job
            named == Elems(parse_page_range(job.page_range, fs[job.input_path].pages))
            targets == {PageTarget(job, n) : n \in named}
        IN  /\ Elems(calls[1].ret.outputs) \subseteq targets
            /\ \A q \in DOMAIN fs : (q.dir = job.output_dir /\ q # F_OLD) => q \in targets
            /\ named = {} => calls[1].ret.outputs = <<>>
\* C34: in one PDF job the selected pages end up in pairwise distinct
\* files: the outputs of the result are pairwise distinct and each is a
\* file on disk, whether the pattern has {page} or not and whatever the
\* collision policy.
C34_PagesInDistinctFiles ==
    (/\ Returned("convert_job")
     /\ Route(calls[1].call.job) = "pdf_to_images"
     /\ ~calls[1].raised) =>
        LET outputs == calls[1].ret.outputs
        IN  /\ \A j, k \in 1..Len(outputs) : j # k => outputs[j] # outputs[k]
            /\ \A k \in 1..Len(outputs) : outputs[k] \in DOMAIN fs
\* ---- progress before completion

\* C35: in per-item mode every itemDone whose result has success = true is
\* preceded by a progressItem of the same row with the value 1.0, for every
\* mode, policy and moment of cancellation.
C35_FullProgressBeforeDone ==
    PerItem =>
        \A k \in Sigs("itemDone") :
            events[k].res.success =>
                \E j \in 1..(k - 1) :
                    /\ events[j].sig = "progressItem"
                    /\ events[j].row = events[k].row
                    /\ events[j].p[1] = events[j].p[2]
====
